---- MODULE Spec2Model ----
(***************************************************************************)
(* Conversation state machine of the LangGraph / FastAPI backend:          *)
(*   - the agent graph (agent -> approval -> tools) of agent/graph.py,     *)
(*   - the tool loop of POST /{thread_id}/runs/stream in routes/chat.py,   *)
(*   - the message sanitizer of agent/utils.py,                            *)
(*   - the approval filtering that approval_node applies on resume,        *)
(*   - the thread routes (run requests, edit / regenerate forks, history    *)
(*     reconstruction) of lib/external_store_langgraph/thread_routes.py,    *)
(*   - the event stream of stream_thread_run.                              *)
(***************************************************************************)
EXTENDS Integers, Sequences, FiniteSets, TLC

VARIABLES
    messages,        \* AgentState["messages"] of the thread (head state)
    node,            \* position of the turn in the graph
    pending,         \* tool_calls of the interrupt payload while suspended
    checkpoints,     \* checkpoint store: sequence of [parent, messages, source]
    head,            \* id (index) of the checkpoint the turn continues from, 0 if none
    nextMsgId,       \* next fresh message id
    nextCallId,      \* next fresh tool_call id issued by the model
    turns,           \* human messages accepted so far
    route,           \* last result of should_continue
    modelInput,      \* last message list handed to model_with_tools.ainvoke
    invoked,         \* every tool invocation made by the backend
    approved,        \* tool_call ids a human decision marked approved
    chatPc,          \* position of event_stream() of routes/chat.py
    astream_input,   \* last message list handed to model_with_tools.astream
    chat_payload,    \* payload.messages of the run request being served
    current_messages,\* its working message list
    round_index,     \* its round counter
    tool_states,     \* tool calls accumulated from the current model stream
    sanIn, sanOut, sanPc,            \* sanitizer applied to an arbitrary list
    apCalls, apApproval, apOut, apPc,\* approval filtering applied to a payload
    run_id,          \* run requests handled by stream_thread_run so far
    request,         \* the last StreamRunRequest
    fork,            \* checkpoint id it resolved (0: none, the thread's latest state)
    run_status,      \* "none", "404", "open", "snapshot" or "error"
    snapshot,        \* the last final snapshot (_get_thread_snapshot)
    graph_events,    \* what graph.stream(...) yields to event_stream()
    yielded,         \* the events event_stream() has yielded
    streamPc,        \* number of items of graph_events event_stream() has consumed
    files,           \* ThreadStore: the JSON documents of _base_dir, by file name
    store_target,    \* the thread id the last direct call of a ThreadStore write named
    store_writes,    \* number of direct calls of ThreadStore writes
    ser_store,       \* a checkpoint store state handed to _get_thread_snapshot
    ser_builds,      \* the snapshots built from ser_store so far
    call_pc,         \* per request: where its ThreadStore call stands
    call_op,         \* per request: the ThreadStore method it calls
    call_document,   \* per request: the document its call holds in memory
    container,       \* ThreadRepoStore: the Cosmos item of the thread, if any
    blob_storage,    \* the blobs of the storage container, by name
    uploads,         \* number of blobs uploaded so far
    put_pc,          \* per request: where its ThreadRepoStore.put stands
    put_local,       \* per request: repo, existing, blob_name of its put
    puts,            \* number of put calls begun
    resolved         \* what the last resolve_repo returned

vars == <<messages, node, pending, checkpoints, head, nextMsgId, nextCallId,
          turns, route, modelInput, invoked, approved,
          chatPc, astream_input, chat_payload, current_messages, round_index,
          tool_states,
          sanIn, sanOut, sanPc, apCalls, apApproval, apOut, apPc,
          run_id, request, fork, run_status, snapshot,
          graph_events, yielded, streamPc,
          files, store_target, store_writes,
          ser_store, ser_builds,
          call_pc, call_op, call_document,
          container, blob_storage, uploads, put_pc, put_local, puts, resolved>>

graphVars == <<messages, node, pending, checkpoints, head, nextMsgId,
               nextCallId, turns, route, modelInput, approved>>
chatVars == <<chatPc, astream_input, chat_payload, current_messages, round_index,
              tool_states>>
sanVars == <<sanIn, sanOut, sanPc>>
apVars == <<apCalls, apApproval, apOut, apPc>>
threadVars == <<run_id, request, fork, run_status, snapshot>>
streamVars == <<graph_events, yielded, streamPc>>
storeVars == <<files, store_target, store_writes>>
serVars == <<ser_store, ser_builds>>
callVars == <<call_pc, call_op, call_document>>
repoVars == <<container, blob_storage, uploads, put_pc, put_local, puts, resolved>>
auxVars == <<serVars, callVars, repoVars>>

-----------------------------------------------------------------------------
(* Bounds of the model *)

MaxTurns == 2
MaxCalls == 2
MaxRounds == 2
MaxChatBatch == 2
MaxLen == 4
MaxApCalls == 2
MaxRuns == 2
MaxItems == 4
\* stands for limit=500 of _get_history, scaled to the size of the model
HistoryLimit == 3

\* longest stored message list _get_thread_snapshot is applied to
MaxStored == 3

\* number of ThreadRepoStore.put calls made for the thread
MaxPuts == 3
BigTokens == 70000
SmallTokens == 1000

(* Program constants *)

max_tokens == 120000

\* an absent Optional[str] field
NONE == 0

\* a message id the server never issued
UNKNOWN_MESSAGE_ID == 999

DANGEROUS_TOOL_NAMES == {"current_weather"}

AVAILABLE_TOOLS == {"get_current_time", "generate_image", "current_weather"}

REJECTED_CONTENT == "Tool call rejected by user."

-----------------------------------------------------------------------------
(* Messages *)

ToolCall(id, name, args) == [id |-> id, name |-> name, args |-> args]

HumanMessage(id, big) ==
    [type |-> "human", id |-> id, calls |-> <<>>, tcid |-> 0,
     content |-> "text", clist |-> FALSE, kw |-> FALSE, big |-> big,
     parts |-> <<>>]

SystemMessage ==
    [type |-> "system", id |-> 0, calls |-> <<>>, tcid |-> 0,
     content |-> "prompt", clist |-> FALSE, kw |-> FALSE, big |-> FALSE,
     parts |-> <<>>]

\* clist: the content is a list of parts (held in `parts`), not a string;
\* kw: additional_kwargs carries the raw tool calls of the model response
AIMessage(id, calls, clist, kw) ==
    [type |-> "ai", id |-> id, calls |-> calls, tcid |-> 0,
     content |-> "text", clist |-> clist, kw |-> kw, big |-> FALSE,
     parts |-> <<>>]

ToolMessage(id, tcid, content) ==
    [type |-> "tool", id |-> id, calls |-> <<>>, tcid |-> tcid,
     content |-> content, clist |-> FALSE, kw |-> FALSE, big |-> FALSE,
     parts |-> <<>>]

CallIds(calls) == {calls[k].id : k \in DOMAIN calls}

Last(s) == s[Len(s)]

\* add_messages reducer: a message whose id is already in the list replaces
\* the message of that id in place, any other message is appended.
RECURSIVE add_messages(_, _)
add_messages(left, right) ==
    IF right = <<>> THEN left
    ELSE LET m == Head(right)
             hit == {k \in DOMAIN left : left[k].id = m.id}
             merged == IF hit # {}
                       THEN [k \in DOMAIN left |-> IF k \in hit THEN m ELSE left[k]]
                       ELSE Append(left, m)
         IN add_messages(merged, Tail(right))

-----------------------------------------------------------------------------
(* agent/utils.py: sanitize_and_validate_messages *)

\* index just past the run of consecutive ToolMessages starting at j
RECURSIVE tool_run_end(_, _)
tool_run_end(msgs, j) ==
    IF j <= Len(msgs) /\ msgs[j].type = "tool"
    THEN tool_run_end(msgs, j + 1)
    ELSE j

\* mutant: extra responses are refused but missing ones are not
sanitize_keep_missing_ok(found_tool_responses, tool_call_ids) ==
    found_tool_responses \subseteq tool_call_ids

\* the all-responses-found test of the look-ahead
sanitize_keep(found_tool_responses, tool_call_ids) ==
    found_tool_responses = tool_call_ids

\* mutant: the incomplete assistant message is skipped, its partial tool
\* messages are kept
incomplete_sequence_keeps_tools(sanitized_messages, tool_messages) ==
    sanitized_messages \o tool_messages

\* the incomplete-sequence branch: neither the assistant message nor the
\* tool messages of its run are emitted
incomplete_sequence(sanitized_messages, tool_messages) == sanitized_messages

\* mutant: the orphaned tool message is passed on
orphan_tool_message_kept(current_message) == <<current_message>>

\* the orphaned-ToolMessage branch of the scan: nothing is emitted
orphan_tool_message(current_message) == <<>>

RECURSIVE sanitize_from(_, _, _)
sanitize_from(msgs, i, sanitized_messages) ==
    IF i > Len(msgs) THEN sanitized_messages
    ELSE LET current_message == msgs[i] IN
         IF current_message.type = "ai" /\ current_message.calls # <<>>
         THEN LET tool_call_ids == CallIds(current_message.calls)
                  j == tool_run_end(msgs, i + 1)
                  Responds(m) == m.tcid \in tool_call_ids
                  tool_messages == SelectSeq(SubSeq(msgs, i + 1, j - 1), Responds)
                  found_tool_responses ==
                      {tool_messages[k].tcid : k \in DOMAIN tool_messages}
              IN IF sanitize_keep(found_tool_responses, tool_call_ids)
                 THEN sanitize_from(msgs, j,
                          sanitized_messages \o <<current_message>> \o tool_messages)
                 ELSE sanitize_from(msgs, j,
                          incomplete_sequence(sanitized_messages, tool_messages))
         ELSE IF current_message.type \in {"human", "system", "ai"}
         THEN sanitize_from(msgs, i + 1, Append(sanitized_messages, current_message))
         ELSE IF current_message.type = "tool"
         THEN sanitize_from(msgs, i + 1,
                  sanitized_messages \o orphan_tool_message(current_message))
         ELSE sanitize_from(msgs, i + 1, sanitized_messages)

sanitize_and_validate_messages(msgs) ==
    IF msgs = <<>> THEN msgs ELSE sanitize_from(msgs, 1, <<>>)

-----------------------------------------------------------------------------
(* agent/graph.py: call_model's preparation of the model input *)

\* count_tokens_approximately, abstracted to two message sizes
RECURSIVE count_tokens(_)
count_tokens(msgs) ==
    IF msgs = <<>> THEN 0
    ELSE (IF Head(msgs).big THEN BigTokens ELSE SmallTokens) + count_tokens(Tail(msgs))

RECURSIVE strip_end(_)
strip_end(msgs) ==
    IF msgs # <<>> /\ Last(msgs).type \notin {"human", "tool"}
    THEN strip_end(SubSeq(msgs, 1, Len(msgs) - 1))
    ELSE msgs

RECURSIVE strip_start(_)
strip_start(msgs) ==
    IF msgs # <<>> /\ Head(msgs).type # "human"
    THEN strip_start(Tail(msgs))
    ELSE msgs

\* trim_messages(strategy="last", max_tokens=120_000, start_on="human",
\*               end_on=("human", "tool"))
trim_messages(msgs) ==
    LET ended == strip_end(msgs)
        n == Len(ended)
        fits == {k \in 0..n : count_tokens(SubSeq(ended, n - k + 1, n)) <= max_tokens}
        keep == CHOOSE k \in fits : \A l \in fits : l <= k
    IN strip_start(SubSeq(ended, n - keep + 1, n))

\* the parts a content list is made of: a text part, an image_url part
\* whose url is a chatbot:// reference to a stored attachment, one whose
\* attachment the database does not know, and an image_url part that
\* holds a time-limited blob link
TEXT_PART == "text"
CHATBOT_REF == "chatbot://found"
CHATBOT_REF_UNKNOWN == "chatbot://unknown"
BLOB_LINK == "https://blob?sas"

\* mutant: the reference is left as it is
process_image_url_item_keep(item) == item

\* process_image_url_item: a new item with the temporary link when the url
\* is a chatbot:// reference of a known attachment, the item itself otherwise
process_image_url_item(item) ==
    IF item = CHATBOT_REF THEN BLOB_LINK ELSE item

\* string content: the message itself; list content: a new HumanMessage
\* with the same id whose image_url items went through process_image_url_item
process_human_message(message) ==
    IF ~message.clist THEN message
    ELSE [HumanMessage(message.id, message.big) EXCEPT
             !.clist = TRUE,
             !.parts = [k \in DOMAIN message.parts |->
                           process_image_url_item(message.parts[k])]]

\* list content is rebuilt as AIMessage(content, additional_kwargs, id):
\* tool_calls is not passed on, so the rebuilt message has the tool calls
\* only when additional_kwargs still carries them
process_ai_message(message) ==
    IF ~message.clist THEN message
    ELSE IF message.kw THEN message
    ELSE AIMessage(message.id, <<>>, TRUE, FALSE)

change_file_to_url(msgs) ==
    [k \in DOMAIN msgs |->
        IF msgs[k].type = "human" THEN process_human_message(msgs[k])
        ELSE IF msgs[k].type = "ai" THEN process_ai_message(msgs[k])
        ELSE msgs[k]]

\* the list passed to model_with_tools.ainvoke
call_model_input(state_messages) ==
    <<SystemMessage>> \o
        change_file_to_url(sanitize_and_validate_messages(trim_messages(state_messages)))

-----------------------------------------------------------------------------
(* agent/graph.py: should_continue and the graph's edges *)

\* mutant: approval only when every requested tool is dangerous
should_continue_all(state_messages) ==
    LET last_message == Last(state_messages) IN
    IF last_message.type = "ai" /\ last_message.calls # <<>>
    THEN IF \A k \in DOMAIN last_message.calls :
                last_message.calls[k].name \in DANGEROUS_TOOL_NAMES
         THEN "approval"
         ELSE "tools"
    ELSE "end"

\* mutant: a response without tool calls is sent to the tools node
should_continue_no_end(state_messages) ==
    LET last_message == Last(state_messages) IN
    IF last_message.type = "ai" /\ last_message.calls # <<>>
    THEN IF \E k \in DOMAIN last_message.calls :
                last_message.calls[k].name \in DANGEROUS_TOOL_NAMES
         THEN "approval"
         ELSE "tools"
    ELSE "tools"

should_continue(state_messages) ==
    LET last_message == Last(state_messages) IN
    IF last_message.type = "ai" /\ last_message.calls # <<>>
    THEN IF \E k \in DOMAIN last_message.calls :
                last_message.calls[k].name \in DANGEROUS_TOOL_NAMES
         THEN "approval"
         ELSE "tools"
    ELSE "end"

\* mutant: the tools node ends the turn
after_tools_end == "end"

\* workflow.add_edge("tools", "agent")
after_tools == "agent"

\* workflow.add_edge("approval", "tools")
after_approval == "tools"

\* workflow.set_entry_point("agent")
entry_point == "agent"

-----------------------------------------------------------------------------
(* agent/graph.py: approval_node *)

\* argument values: JSON objects, None (absent or null), a non-object value
ORIGINAL_ARGS == "args0"
ArgObjects == {"args0", "args1"}
NO_ARGS == "none"
NON_OBJECT == "nonobj"

\* the resume value handed back by interrupt(): an object that may carry
\* "decisions" (a list of entries, or some other value), and/or the
\* {approved_ids, rejected_ids} partition
Approval(form, decisions, approved_ids, rejected_ids) ==
    [form |-> form, decisions |-> decisions,
     approved_ids |-> approved_ids, rejected_ids |-> rejected_ids]

DecisionItem(isdict, id, decision, arguments) ==
    [isdict |-> isdict, id |-> id, decision |-> decision, arguments |-> arguments]

\* mutant: the names are compared with a set that holds none of them
need_approval_none(calls) == SubSeq(calls, 1, 0)

need_approval(calls) ==
    LET Dangerous(tc) == tc.name \in DANGEROUS_TOOL_NAMES
    IN SelectSeq(calls, Dangerous)

\* mutant: the payload lists every call of the batch
interrupt_payload_all(calls) ==
    [k \in DOMAIN calls |->
        [id |-> calls[k].id, name |-> calls[k].name, arguments |-> calls[k].args]]

\* the payload of interrupt(): the dangerous calls as {id, name, arguments}
interrupt_payload(calls) ==
    LET na == need_approval(calls)
    IN [k \in DOMAIN na |->
           [id |-> na[k].id, name |-> na[k].name, arguments |-> na[k].args]]

\* approval.get("decisions", [])
decisions_raw(approval) ==
    IF approval.form = "legacy" THEN <<>> ELSE approval.decisions

\* isinstance(decisions_raw, list)
is_list(approval) == approval.form # "notlist"

RECURSIVE decisions_scan(_, _)
decisions_scan(items, decisions_by_id) ==
    IF items = <<>> THEN decisions_by_id
    ELSE LET item == Head(items) IN
         IF ~item.isdict
         THEN decisions_scan(Tail(items), decisions_by_id)
         ELSE IF item.id = 0 \/ item.decision \notin {"approved", "rejected"}
         THEN decisions_scan(Tail(items), decisions_by_id)
         ELSE decisions_scan(Tail(items),
                  (item.id :> [decision |-> item.decision,
                               arguments |-> item.arguments]) @@ decisions_by_id)

\* mutant: the first entry recorded for an id is the one that counts
decisions_by_id_of_first(approval) ==
    IF is_list(approval)
    THEN LET raw == decisions_raw(approval)
         IN decisions_scan([k \in DOMAIN raw |-> raw[Len(raw) + 1 - k]], <<>>)
    ELSE <<>>

decisions_by_id_of(approval) ==
    IF is_list(approval)
    THEN decisions_scan(decisions_raw(approval), <<>>)
    ELSE <<>>

\* mutant: a non-object override falls back to the original arguments
override_or_original(tc, override_args) ==
    IF override_args \in ArgObjects
    THEN <<[tc EXCEPT !.args = override_args]>>
    ELSE <<tc>>

\* "Only accept JSON-object arguments": the approved call with its final
\* arguments, or nothing when they are not an object
apply_override(tc, override_args) ==
    IF override_args \in ArgObjects
    THEN <<[tc EXCEPT !.args = override_args]>>
    ELSE <<>>

\* mutant: safe calls are gated like dangerous ones
safe_call_dropped(tc) == <<>>

\* a call whose name is not dangerous is appended as it is
safe_call(tc) == <<tc>>

RECURSIVE filter_calls(_, _, _)
filter_calls(calls, decisions_by_id, filtered_calls) ==
    IF calls = <<>> THEN filtered_calls
    ELSE LET tc == Head(calls)
             rest == Tail(calls) IN
         IF tc.name \notin DANGEROUS_TOOL_NAMES
         THEN filter_calls(rest, decisions_by_id, filtered_calls \o safe_call(tc))
         ELSE IF tc.id = 0
         THEN filter_calls(rest, decisions_by_id, filtered_calls)
         ELSE IF tc.id \notin DOMAIN decisions_by_id
                 \/ decisions_by_id[tc.id].decision # "approved"
         THEN filter_calls(rest, decisions_by_id, filtered_calls)
         ELSE LET given == decisions_by_id[tc.id].arguments
                  override_args == IF given = NO_ARGS THEN tc.args ELSE given
              IN filter_calls(rest, decisions_by_id,
                     filtered_calls \o apply_override(tc, override_args))

\* mutant: the rebuilt message does not take over the id of the last message
approval_node_resume_new_id(state_messages, approval) ==
    LET last_message == Last(state_messages)
        filtered_calls ==
            filter_calls(last_message.calls, decisions_by_id_of(approval), <<>>)
    IN <<AIMessage(last_message.id + 100, filtered_calls, last_message.clist, FALSE)>>

\* what approval_node returns as {"messages": [...]} once interrupt() has
\* returned the resume value
approval_node_resume(state_messages, approval) ==
    LET last_message == Last(state_messages)
        filtered_calls ==
            filter_calls(last_message.calls, decisions_by_id_of(approval), <<>>)
        updated_message ==
            AIMessage(last_message.id, filtered_calls, last_message.clist, FALSE)
    IN <<updated_message>>

\* the ids the human marked approved, in either form of the payload
human_approved(approval) ==
    IF approval.form = "legacy" THEN approval.approved_ids
    ELSE IF approval.form = "notlist" THEN {}
    ELSE {approval.decisions[k].id : k \in
             {i \in DOMAIN approval.decisions :
                 approval.decisions[i].isdict
                 /\ approval.decisions[i].decision = "approved"}}

-----------------------------------------------------------------------------
(* Inputs *)

SeqsUpTo(S, n) == UNION {[1..k -> S] : k \in 0..n}

\* the tool names the model is taken to request
RequestedTools == {"current_weather", "get_current_time"}

\* content of a model response: a string, or a list of parts (told apart
\* only where it matters, on a response that carries tool calls)
ContentKinds(n) ==
    IF n = 0 THEN {<<FALSE, FALSE>>}
    ELSE {<<FALSE, FALSE>>, <<TRUE, FALSE>>, <<TRUE, TRUE>>}

\* what one entry of the "decisions" list may say about a call
DecisionChoices ==
    {<<"approved", NO_ARGS>>, <<"approved", "args1">>, <<"approved", NON_OBJECT>>,
     <<"rejected", NO_ARGS>>, <<"later", NO_ARGS>>}

\* entries a client may put in the "decisions" list for the calls `ids`
DecisionItems(ids) ==
    {DecisionItem(TRUE, i, c[1], c[2]) : i \in ids, c \in DecisionChoices}
    \cup {DecisionItem(TRUE, 0, "approved", NO_ARGS),
          DecisionItem(FALSE, 0, "", NO_ARGS)}

\* every payload with at most n entries
Approvals(ids, n) ==
    {Approval("decisions", ds, {}, {}) : ds \in SeqsUpTo(DecisionItems(ids), n)}
    \cup {Approval("legacy", <<>>, a, ids \ a) : a \in SUBSET ids}
    \cup {Approval("notlist", <<>>, {}, {})}

\* the payloads used for a suspended turn: one entry per listed call, in the
\* order of the interrupt payload, or the {approved_ids, rejected_ids} form
ApprovalsFor(payload) ==
    {Approval("decisions",
              [k \in DOMAIN payload |->
                  DecisionItem(TRUE, payload[k].id, cs[k][1], cs[k][2])], {}, {}) :
        cs \in [DOMAIN payload -> DecisionChoices]}
    \cup {Approval("legacy", <<>>, a, CallIds(payload) \ a) :
             a \in SUBSET CallIds(payload)}

-----------------------------------------------------------------------------
(* The agent graph run by stream_thread_run: one action per graph step *)

Checkpoint(parent, msgs, source) ==
    [parent |-> parent, messages |-> msgs, source |-> source]

GraphIdle ==
    /\ messages = <<>>
    /\ node = "idle"
    /\ pending = <<>>
    /\ checkpoints = <<>>
    /\ head = 0
    /\ nextMsgId = 1
    /\ nextCallId = 1
    /\ turns = 0
    /\ route = "none"
    /\ modelInput = <<>>
    /\ approved = {}

ChatIdle ==
    /\ chatPc = "idle"
    /\ astream_input = <<>>
    /\ chat_payload = <<>>
    /\ current_messages = <<>>
    /\ round_index = 0
    /\ tool_states = <<>>

ThreadIdle ==
    /\ run_id = 0
    /\ request = [message |-> FALSE, parent_message_id |-> NONE,
                  source_message_id |-> NONE]
    /\ fork = 0
    /\ run_status = "none"
    /\ snapshot = [checkpoint_id |-> NONE, messages |-> <<>>,
                   messageRepository |-> [headId |-> NONE, messages |-> <<>>]]

StreamOff == graph_events = <<>> /\ yielded = <<>> /\ streamPc = 0

\* ThreadStore over an empty _base_dir
StoreEmpty == files = <<>> /\ store_target = <<>> /\ store_writes = 0

SerOff == ser_store = <<>> /\ ser_builds = <<>>

CallOff == call_pc = <<>> /\ call_op = <<>> /\ call_document = <<>>

RepoOff ==
    /\ container = <<>> /\ blob_storage = <<>> /\ uploads = 0
    /\ put_pc = <<>> /\ put_local = <<>> /\ puts = 0
    /\ resolved = [status |-> "none", repo |-> NONE]

AuxOff == SerOff /\ CallOff /\ RepoOff

SanOff == sanIn = <<>> /\ sanOut = <<>> /\ sanPc = "off"

ApOff == apCalls = <<>> /\ apApproval = Approval("legacy", <<>>, {}, {})
         /\ apOut = <<>> /\ apPc = "off"

\* graph.stream({"messages": [human]}, config) from checkpoint `base`: the
\* input is saved in an "input" checkpoint that still holds base's messages,
\* then the start step adds the human message to the state and writes its
\* own checkpoint
accept_input(cps, base, human) ==
    LET old == IF base = 0 THEN <<>> ELSE cps[base].messages
        withInput == Append(cps, Checkpoint(base, old, "input"))
    IN Append(withInput,
              Checkpoint(Len(withInput), add_messages(old, <<human>>), "start"))

\* POST /threads/{thread_id}/runs/stream with a message and no
\* parent_message_id / source_message_id: the human message is added to the
\* head state and the graph is entered at its entry point
StartRun ==
    /\ node \in {"idle", "end"}
    /\ turns < MaxTurns
    /\ \E big \in BOOLEAN :
         /\ checkpoints' = accept_input(checkpoints, head, HumanMessage(nextMsgId, big))
         /\ messages' = Last(checkpoints').messages
    /\ head' = Len(checkpoints')
    /\ nextMsgId' = nextMsgId + 1
    /\ turns' = turns + 1
    /\ node' = entry_point
    /\ UNCHANGED <<pending, nextCallId, route, modelInput, approved, invoked>>
    /\ UNCHANGED <<chatVars, sanVars, apVars, storeVars, auxVars, threadVars, streamVars>>

\* the agent node (call_model) followed by the conditional edge
CallModel ==
    /\ node = "agent"
    /\ modelInput' = call_model_input(messages)
    /\ \E n \in 0..(MaxCalls + 1 - nextCallId) :
         \E names \in [1..n -> RequestedTools], kind \in ContentKinds(n) :
           LET calls == [k \in 1..n |->
                            ToolCall(nextCallId + k - 1, names[k], ORIGINAL_ARGS)]
               response == AIMessage(nextMsgId, calls, kind[1], kind[2])
               new == add_messages(messages, <<response>>)
           IN /\ messages' = new
              /\ nextCallId' = nextCallId + n
              /\ route' = should_continue(new)
              /\ node' = should_continue(new)
              /\ checkpoints' = Append(checkpoints, Checkpoint(head, new, "agent"))
    /\ head' = Len(checkpoints')
    /\ nextMsgId' = nextMsgId + 1
    /\ UNCHANGED <<pending, turns, approved, invoked>>
    /\ UNCHANGED <<chatVars, sanVars, apVars, storeVars, auxVars, threadVars, streamVars>>

\* the approval node up to interrupt(): either it returns without a change
\* (no dangerous call), or it suspends the turn with the payload
ApprovalInterrupt ==
    /\ node = "approval"
    /\ pending = <<>>
    /\ LET last_message == Last(messages) IN
       IF last_message.type # "ai" \/ last_message.calls = <<>>
          \/ need_approval(last_message.calls) = <<>>
       THEN /\ checkpoints' = Append(checkpoints, Checkpoint(head, messages, "approval"))
            /\ head' = Len(checkpoints')
            /\ node' = after_approval
            /\ UNCHANGED pending
       ELSE /\ pending' = interrupt_payload(last_message.calls)
            /\ UNCHANGED <<checkpoints, head, node>>
    /\ UNCHANGED <<messages, nextMsgId, nextCallId, turns, route, modelInput,
                   approved, invoked>>
    /\ UNCHANGED <<chatVars, sanVars, apVars, storeVars, auxVars, threadVars, streamVars>>

\* the approval node resumed with a decision payload
ApprovalResume ==
    /\ node = "approval"
    /\ pending # <<>>
    /\ \E approval \in ApprovalsFor(pending) :
         LET new == add_messages(messages, approval_node_resume(messages, approval)) IN
         /\ messages' = new
         /\ approved' = approved \cup human_approved(approval)
         /\ checkpoints' = Append(checkpoints, Checkpoint(head, new, "approval"))
    /\ head' = Len(checkpoints')
    /\ pending' = <<>>
    /\ node' = after_approval
    /\ UNCHANGED <<nextMsgId, nextCallId, turns, route, modelInput, invoked>>
    /\ UNCHANGED <<chatVars, sanVars, apVars, storeVars, auxVars, threadVars, streamVars>>

\* the tools node (ToolNode): every tool call of the last assistant message
\* is invoked, in request order, and answered by one ToolMessage
ExecuteTools ==
    /\ node = "tools"
    /\ LET calls == Last(messages).calls
           results == [k \in DOMAIN calls |->
                          ToolMessage(nextMsgId + k - 1, calls[k].id, "result")]
           new == add_messages(messages, results)
       IN /\ messages' = new
          /\ invoked' = invoked \cup
                {[path |-> "graph", id |-> calls[k].id, name |-> calls[k].name] :
                    k \in DOMAIN calls}
          /\ nextMsgId' = nextMsgId + Len(calls)
          /\ checkpoints' = Append(checkpoints, Checkpoint(head, new, "tools"))
    /\ head' = Len(checkpoints')
    /\ node' = after_tools
    /\ UNCHANGED <<pending, nextCallId, turns, route, modelInput, approved>>
    /\ UNCHANGED <<chatVars, sanVars, apVars, storeVars, auxVars, threadVars, streamVars>>

Init == GraphIdle /\ ChatIdle /\ StoreEmpty /\ AuxOff /\ SanOff /\ ApOff /\ ThreadIdle /\ StreamOff
        /\ invoked = {}

Next == StartRun \/ CallModel \/ ApprovalInterrupt \/ ApprovalResume \/ ExecuteTools

Spec == Init /\ [][Next]_vars

\* turns taken with attachments
MaxAttachTurns == 1

\* contents a client sends with a message: text only, text with an image
\* attachment, two image attachments of which one is unknown to the database
ClientContents ==
    {<<TEXT_PART>>, <<TEXT_PART, CHATBOT_REF>>, <<CHATBOT_REF, CHATBOT_REF_UNKNOWN>>}

\* _to_human_message: a single text part becomes string content, anything
\* else stays a list of parts
to_human_message(content_parts, id) ==
    IF content_parts = <<TEXT_PART>> THEN HumanMessage(id, FALSE)
    ELSE [HumanMessage(id, FALSE) EXCEPT !.clist = TRUE, !.parts = content_parts]

\* POST /threads/{thread_id}/runs/stream with a message that may carry
\* attachments, on the head state
StartRunWithAttachments ==
    /\ node \in {"idle", "end"}
    /\ turns < MaxAttachTurns
    /\ \E content_parts \in ClientContents :
         /\ checkpoints' = accept_input(checkpoints, head,
                                        to_human_message(content_parts, nextMsgId))
         /\ messages' = Last(checkpoints').messages
    /\ head' = Len(checkpoints')
    /\ nextMsgId' = nextMsgId + 1
    /\ turns' = turns + 1
    /\ node' = entry_point
    /\ UNCHANGED <<pending, nextCallId, route, modelInput, approved, invoked>>
    /\ UNCHANGED <<chatVars, sanVars, apVars, storeVars, auxVars, threadVars, streamVars>>

NextAttach ==
    \/ StartRunWithAttachments
    \/ CallModel
    \/ ApprovalInterrupt
    \/ ApprovalResume
    \/ ExecuteTools

SpecAttach == Init /\ [][NextAttach]_vars

-----------------------------------------------------------------------------
(* lib/external_store_langgraph/thread_routes.py: history reconstruction *)

MessageIds(msgs) == {msgs[i].id : i \in DOMAIN msgs}

\* _get_history: the newest HistoryLimit checkpoints, reversed to oldest first
get_history(cps) ==
    LET n == Len(cps)
        first == IF n > HistoryLimit THEN n - HistoryLimit + 1 ELSE 1
    IN [k \in 1..(n - first + 1) |-> first + k - 1]

\* mutant: only the last message of a snapshot is indexed
RECURSIVE build_checkpoint_indexes_last_only(_, _, _, _)
build_checkpoint_indexes_last_only(cps, history, k, index) ==
    IF k > Len(history) THEN index
    ELSE LET checkpoint_id == history[k]
             parent_checkpoint_id == cps[checkpoint_id].parent
             msgs == cps[checkpoint_id].messages
             fresh == IF msgs = <<>> THEN {}
                      ELSE ({Last(msgs).id} \ {NONE}) \ DOMAIN index
         IN build_checkpoint_indexes_last_only(cps, history, k + 1,
                [m \in DOMAIN index \cup fresh |->
                    IF m \in DOMAIN index THEN index[m]
                    ELSE [checkpoint |-> checkpoint_id,
                          parent |-> parent_checkpoint_id]])

\* _build_checkpoint_indexes: the first snapshot of the history that holds a
\* message id gives its checkpoint and that checkpoint's parent
RECURSIVE build_checkpoint_indexes_from(_, _, _, _)
build_checkpoint_indexes_from(cps, history, k, index) ==
    IF k > Len(history) THEN index
    ELSE LET checkpoint_id == history[k]
             parent_checkpoint_id == cps[checkpoint_id].parent
             \* "if not message_id or not checkpoint_id: continue"
             fresh == (MessageIds(cps[checkpoint_id].messages) \ {NONE})
                          \ DOMAIN index
         IN build_checkpoint_indexes_from(cps, history, k + 1,
                [m \in DOMAIN index \cup fresh |->
                    IF m \in DOMAIN index THEN index[m]
                    ELSE [checkpoint |-> checkpoint_id,
                          parent |-> parent_checkpoint_id]])

build_checkpoint_indexes(cps) ==
    build_checkpoint_indexes_from(cps, get_history(cps), 1, <<>>)

\* whether the tool-call part of the assistant message at position i carries
\* a result: a later ToolMessage updates the part registered last for its
\* id, an earlier one waits in pending_tool_results for the first such part
tool_part_has_result(msgs, i, tool_call_id) ==
    LET Calls(a) == msgs[a].type = "ai" /\ tool_call_id \in CallIds(msgs[a].calls)
        Answers(j) == msgs[j].type = "tool" /\ msgs[j].tcid = tool_call_id
    IN \/ \E j \in DOMAIN msgs :
             /\ j > i /\ Answers(j)
             /\ \A a \in DOMAIN msgs : (i < a /\ a < j) => ~Calls(a)
       \/ \E j \in DOMAIN msgs :
             /\ j < i /\ Answers(j)
             /\ \A a \in DOMAIN msgs : a < i => ~Calls(a)

\* the role _serialize_messages gives a message that is not a ToolMessage
role_of(message) ==
    CASE message.type = "human" -> "user"
      [] message.type = "ai" -> "assistant"
      [] OTHER -> "system"

\* _stringify(message.content), as the number that stands for the text
stringify(content) ==
    CASE content = "text" -> 1
      [] content = "prompt" -> 2
      [] OTHER -> 3

\* f"synthetic-{uuid.uuid5(uuid.NAMESPACE_URL, synthetic_key)}": a name-based
\* uuid, a function of the key's checkpoint id, index, role and content
synthetic_id(snapshot_checkpoint_id, index, role, content) ==
    20000 + 1000 * snapshot_checkpoint_id + 100 * index
          + 10 * (CASE role = "user" -> 1 [] role = "assistant" -> 2 [] OTHER -> 3)
          + stringify(content)

\* the requests in flight at the same time
Callers == 1..2

\* the generator states uuid.uuid4() can be in when a snapshot is built
Uuid4Seeds == 1..2

\* str(uuid.uuid4()): a random uuid, fresh at every call; seed is the
\* generator's state of the build, site the call of _serialize_messages in
\* it (0: the head state, 1: the repository)
uuid4(seed, site, snapshot_checkpoint_id, index, k) ==
    50000 + 10000 * seed + 5000 * site + 100 * snapshot_checkpoint_id
          + 10 * index + k

\* the id of a payload: the message's own id, or the synthetic one
message_id_of(message, snapshot_checkpoint_id, index, seed, site) ==
    IF message.id # NONE THEN message.id
    ELSE synthetic_id(snapshot_checkpoint_id, index, role_of(message),
                      message.content)

\* "str(raw_tool_call_id) if raw_tool_call_id else str(uuid.uuid4())"
tool_call_id_of(raw_tool_call_id, seed, site, snapshot_checkpoint_id, index, k) ==
    IF raw_tool_call_id # NONE THEN raw_tool_call_id
    ELSE uuid4(seed, site, snapshot_checkpoint_id, index, k)

\* _serialize_messages: tool messages are merged into the tool-call parts,
\* every other message becomes one payload; index is the pair of lookup maps,
\* seed and site say which uuid4 values the call draws
serialize_messages(msgs, index, snapshot_checkpoint_id, seed, site) ==
    LET MessageId(i) ==
            message_id_of(msgs[i], snapshot_checkpoint_id, i - 1, seed, site)
        ToolCallId(i, k) ==
            tool_call_id_of(msgs[i].calls[k].id, seed, site,
                            snapshot_checkpoint_id, i - 1, k)
        Payload(i) ==
            [id |-> MessageId(i),
             role |-> role_of(msgs[i]),
             checkpointId |-> IF MessageId(i) \in DOMAIN index
                              THEN index[MessageId(i)].checkpoint ELSE NONE,
             parentCheckpointId |-> IF MessageId(i) \in DOMAIN index
                                    THEN index[MessageId(i)].parent ELSE NONE,
             tool_calls |-> [k \in DOMAIN msgs[i].calls |->
                                [toolCallId |-> ToolCallId(i, k),
                                 toolName |-> msgs[i].calls[k].name,
                                 result |-> tool_part_has_result(
                                                msgs, i, ToolCallId(i, k))]]]
        RECURSIVE from(_, _)
        from(i, serialized) ==
            IF i > Len(msgs) THEN serialized
            ELSE IF msgs[i].type = "tool" THEN from(i + 1, serialized)
            ELSE from(i + 1, Append(serialized, Payload(i)))
    IN from(1, <<>>)

\* mutant: a new item is linked to the item added to the repository last
new_item_parent_last_added(previous_message_id, message_order) ==
    IF message_order # <<>> THEN Last(message_order) ELSE NONE

\* "parentId": previous_message_id, the message before it in the snapshot
\* being scanned
new_item_parent(previous_message_id, message_order) == previous_message_id

\* mutant: a message seen again is listed again
RECURSIVE repository_add_again(_, _, _, _)
repository_add_again(serialized, k, previous_message_id, repo) ==
    IF k > Len(serialized) THEN repo
    ELSE LET message_id == serialized[k].id
             items == repo.items_by_message_id
         IN repository_add_again(serialized, k + 1, message_id,
              [items_by_message_id |->
                  [m \in DOMAIN items \cup {message_id} |->
                      IF m = message_id
                      THEN [parentId |-> new_item_parent(previous_message_id,
                                                         repo.message_order),
                            message |-> serialized[k]]
                      ELSE items[m]],
               message_order |-> Append(repo.message_order, message_id)])

\* the inner loop of _build_message_repository over one snapshot
RECURSIVE repository_add(_, _, _, _)
repository_add(serialized, k, previous_message_id, repo) ==
    IF k > Len(serialized) THEN repo
    ELSE LET message_id == serialized[k].id
             items == repo.items_by_message_id
         IN repository_add(serialized, k + 1, message_id,
              IF message_id \notin DOMAIN items
              THEN [items_by_message_id |->
                        [m \in DOMAIN items \cup {message_id} |->
                            IF m = message_id
                            THEN [parentId |-> new_item_parent(previous_message_id,
                                                               repo.message_order),
                                  message |-> serialized[k]]
                            ELSE items[m]],
                    message_order |-> Append(repo.message_order, message_id)]
              ELSE [items_by_message_id |->
                        [items EXCEPT ![message_id].message = serialized[k]],
                    message_order |-> repo.message_order])

RECURSIVE repository_scan(_, _, _, _, _, _)
repository_scan(cps, history, k, index, repo, seed) ==
    IF k > Len(history) THEN repo
    ELSE repository_scan(cps, history, k + 1, index,
            repository_add(serialize_messages(cps[history[k]].messages, index,
                                              history[k], seed, 1),
                           1, NONE, repo),
            seed)

\* _build_message_repository
build_message_repository(cps, index, head_id, seed) ==
    LET repo == repository_scan(cps, get_history(cps), 1, index,
                    [items_by_message_id |-> <<>>, message_order |-> <<>>],
                    seed)
        order == repo.message_order
        safe_head_id ==
            IF head_id \in DOMAIN repo.items_by_message_id THEN head_id
            ELSE IF order # <<>> THEN Last(order) ELSE NONE
    IN [headId |-> safe_head_id,
        messages |-> [k \in DOMAIN order |->
                         [id |-> order[k],
                          parentId |-> repo.items_by_message_id[order[k]].parentId,
                          message |-> repo.items_by_message_id[order[k]].message]]]

\* mutant: the head is the first message of the head state
head_id_of_first(serialized_messages) ==
    IF serialized_messages # <<>> THEN Head(serialized_messages).id ELSE NONE

\* head_id = serialized_messages[-1]["id"] if serialized_messages else None
head_id_of(serialized_messages) ==
    IF serialized_messages # <<>> THEN Last(serialized_messages).id ELSE NONE

\* _get_thread_snapshot: the latest state's messages and the repository;
\* seed is the state of the uuid4 generator when the snapshot is built
get_thread_snapshot(cps, seed) ==
    LET state_messages == IF cps = <<>> THEN <<>> ELSE Last(cps).messages
        index == build_checkpoint_indexes(cps)
        serialized_messages ==
            serialize_messages(state_messages, index, Len(cps), seed, 0)
        head_id == head_id_of(serialized_messages)
    IN [checkpoint_id |-> Len(cps),
        messages |-> serialized_messages,
        messageRepository |->
            build_message_repository(cps, index, head_id, seed)]

\* mutant: the parent index is read, as the edit resolver does
resolve_parent_checkpoint_as_edit(cps, parent_message_id) ==
    LET index == build_checkpoint_indexes(cps)
    IN IF parent_message_id \in DOMAIN index
       THEN index[parent_message_id].parent ELSE NONE

\* _resolve_parent_checkpoint; NONE stands for HTTPException(404)
resolve_parent_checkpoint(cps, parent_message_id) ==
    LET index == build_checkpoint_indexes(cps)
    IN IF parent_message_id \in DOMAIN index
       THEN index[parent_message_id].checkpoint ELSE NONE

\* _resolve_edit_checkpoint; NONE stands for HTTPException(404)
resolve_edit_checkpoint(cps, source_message_id) ==
    LET index == build_checkpoint_indexes(cps)
    IN IF source_message_id \notin DOMAIN index THEN NONE
       ELSE IF index[source_message_id].parent # NONE
       THEN index[source_message_id].parent
       ELSE index[source_message_id].checkpoint

-----------------------------------------------------------------------------
(* lib/thread_repo_store.py: ThreadRepoStore.put and resolve_repo *)

\* the repositories clients send
Repos == {1, 2}

\* hashlib.sha256(repo_json).hexdigest(): equal for equal payloads only
sha256(repo) == 100 + repo

\* gzip.compress / gzip.decompress of the serialized repository
gzip_compress(repo) == [gz |-> repo]
gzip_decompress(data) == data.gz

\* f"{REPO_BLOB_PREFIX}/{thread_id}/{uuid4().hex}.json.gz": a new name at
\* every upload
new_blob_name(n) == n + 1

upload_bytes_to_blob(storage, data, blob_name) ==
    [b \in DOMAIN storage \cup {blob_name} |->
        IF b = blob_name THEN data ELSE storage[b]]

\* delete_file; deleting a missing blob raises, which put ignores
delete_file(storage, blob_name) ==
    [b \in DOMAIN storage \ {blob_name} |-> storage[b]]

\* _write_repo_blob reuses the existing blob when the payload's hash is the
\* one recorded in the existing document
reuses_blob(existing, repo) ==
    existing # <<>> /\ existing[1].repo_sha256 = sha256(repo)

\* resolve_repo: None without a document, the decoded blob the document
\* points at, or the exception of the download
resolve_repo(doc, storage) ==
    IF doc = <<>> THEN [status |-> "none", repo |-> NONE]
    ELSE IF doc[1].repo_blob_name \in DOMAIN storage
    THEN [status |-> "ok", repo |-> gzip_decompress(storage[doc[1].repo_blob_name])]
    ELSE [status |-> "raised", repo |-> NONE]

NO_PUT == [repo |-> NONE, existing |-> <<>>, blob_name |-> NONE]

InitRepo ==
    /\ GraphIdle /\ ChatIdle /\ StoreEmpty /\ SanOff /\ ApOff /\ ThreadIdle
    /\ StreamOff /\ SerOff /\ CallOff /\ invoked = {}
    /\ container = <<>>
    /\ blob_storage = <<>>
    /\ uploads = 0
    /\ put_pc = [c \in Callers |-> "idle"]
    /\ put_local = [c \in Callers |-> NO_PUT]
    /\ puts = 0
    /\ resolved = [status |-> "none", repo |-> NONE]

repo_frame ==
    UNCHANGED <<graphVars, invoked, chatVars, sanVars, apVars, storeVars,
                serVars, callVars, threadVars, streamVars>>

\* put: existing = self.get(thread_id)
put_get(c) ==
    /\ put_pc[c] = "idle"
    /\ puts < MaxPuts
    /\ puts' = puts + 1
    /\ \E repo \in Repos :
          put_local' = [put_local EXCEPT ![c] =
                           [repo |-> repo, existing |-> container, blob_name |-> NONE]]
    /\ put_pc' = [put_pc EXCEPT ![c] = "write_repo_blob"]
    /\ UNCHANGED <<container, blob_storage, uploads, resolved>>
    /\ repo_frame

\* put: _write_repo_blob(thread_id, repo, existing)
put_write_repo_blob(c) ==
    /\ put_pc[c] = "write_repo_blob"
    /\ LET local == put_local[c]
       IN IF reuses_blob(local.existing, local.repo)
          THEN /\ put_local' = [put_local EXCEPT ![c].blob_name =
                                   local.existing[1].repo_blob_name]
               /\ UNCHANGED <<blob_storage, uploads>>
          ELSE /\ put_local' = [put_local EXCEPT ![c].blob_name =
                                   new_blob_name(uploads)]
               /\ blob_storage' = upload_bytes_to_blob(
                                      blob_storage, gzip_compress(local.repo),
                                      new_blob_name(uploads))
               /\ uploads' = uploads + 1
    /\ put_pc' = [put_pc EXCEPT ![c] = "upsert_item"]
    /\ UNCHANGED <<container, puts, resolved>>
    /\ repo_frame

\* put: self._container.upsert_item(body=doc)
put_upsert_item(c) ==
    /\ put_pc[c] = "upsert_item"
    /\ container' = <<[repo_blob_name |-> put_local[c].blob_name,
                       repo_sha256 |-> sha256(put_local[c].repo)]>>
    /\ put_pc' = [put_pc EXCEPT ![c] = "delete_previous"]
    /\ UNCHANGED <<blob_storage, uploads, put_local, puts, resolved>>
    /\ repo_frame

\* put: the previous blob is deleted when it is not the one just recorded
put_delete_previous(c) ==
    /\ put_pc[c] = "delete_previous"
    /\ LET existing == put_local[c].existing
       IN blob_storage' =
             IF existing # <<>> /\ existing[1].repo_blob_name # put_local[c].blob_name
             THEN delete_file(blob_storage, existing[1].repo_blob_name)
             ELSE blob_storage
    /\ put_pc' = [put_pc EXCEPT ![c] = "idle"]
    /\ put_local' = [put_local EXCEPT ![c] = NO_PUT]
    /\ UNCHANGED <<container, uploads, puts, resolved>>
    /\ repo_frame

\* GET /{thread_id}/repo while no put is in progress
get_thread_repo ==
    /\ \A c \in Callers : put_pc[c] = "idle"
    /\ puts > 0
    /\ resolved' = resolve_repo(container, blob_storage)
    /\ UNCHANGED <<container, blob_storage, uploads, put_pc, put_local, puts>>
    /\ repo_frame

NextRepo ==
    \/ \E c \in Callers :
          \/ put_get(c)
          \/ put_write_repo_blob(c)
          \/ put_upsert_item(c)
          \/ put_delete_previous(c)
    \/ get_thread_repo

SpecRepo == InitRepo /\ [][NextRepo]_vars

-----------------------------------------------------------------------------
(* thread_routes.py: _get_thread_snapshot over a given checkpoint store *)

\* the tool calls a stored assistant message can carry: none, one with the
\* id the model gave it, one without an id
StoredCalls ==
    {<<>>, <<ToolCall(7, "get_current_time", "args")>>,
     <<ToolCall(NONE, "get_current_time", "args")>>}

\* the message a store can hold at position i: with the id i or without an id
StoredMessages(i) ==
    {HumanMessage(id, FALSE) : id \in {i, NONE}}
    \cup {AIMessage(id, calls, FALSE, FALSE) : id \in {i, NONE}, calls \in StoredCalls}
    \cup {ToolMessage(i, 7, "result")}

StoredStates ==
    UNION {{msgs \in [1..n -> UNION {StoredMessages(i) : i \in 1..n}] :
               \A i \in 1..n : msgs[i] \in StoredMessages(i)} : n \in 1..MaxStored}

\* a thread whose state grew by one message per checkpoint
linear_store(msgs) ==
    [c \in 1..Len(msgs) |-> Checkpoint(c - 1, SubSeq(msgs, 1, c), "loop")]

InitSerialize ==
    /\ GraphIdle /\ ChatIdle /\ StoreEmpty /\ SanOff /\ ApOff /\ ThreadIdle
    /\ StreamOff /\ invoked = {}
    /\ ser_store \in {linear_store(msgs) : msgs \in StoredStates}
    /\ ser_builds = <<>>
    /\ CallOff /\ RepoOff

\* GET /threads/{thread_id}/messages on the store, nothing written in between
BuildSnapshot ==
    /\ Len(ser_builds) < 2
    /\ \E seed \in Uuid4Seeds :
          ser_builds' = Append(ser_builds, get_thread_snapshot(ser_store, seed))
    /\ UNCHANGED ser_store
    /\ UNCHANGED <<graphVars, invoked, chatVars, sanVars, apVars, storeVars,
                   callVars, repoVars, threadVars, streamVars>>

NextSerialize == BuildSnapshot

SpecSerialize == InitSerialize /\ [][NextSerialize]_vars

-----------------------------------------------------------------------------
(* thread_routes.py: POST /threads/{thread_id}/runs/stream *)

KnownMessageIds(cps) == UNION {MessageIds(cps[c].messages) : c \in DOMAIN cps}

\* StreamRunRequest: a message or none, and at most one of the two ids (a
\* source_message_id without a message is not an edit)
Requests(ids) ==
    {[message |-> m, parent_message_id |-> p, source_message_id |-> NONE] :
        m \in BOOLEAN, p \in ids \cup {NONE, UNKNOWN_MESSAGE_ID}}
    \cup
    {[message |-> TRUE, parent_message_id |-> NONE, source_message_id |-> x] :
        x \in ids \cup {UNKNOWN_MESSAGE_ID}}
    \cup
    {[message |-> FALSE, parent_message_id |-> NONE,
      source_message_id |-> UNKNOWN_MESSAGE_ID]}

\* the checkpoint id put in the run's config; NONE leaves the thread's
\* latest state
parent_checkpoint_id_of(cps, req) ==
    IF req.source_message_id # NONE /\ req.message
    THEN resolve_edit_checkpoint(cps, req.source_message_id)
    ELSE IF req.parent_message_id # NONE
    THEN resolve_parent_checkpoint(cps, req.parent_message_id)
    ELSE NONE

\* mutant: only the edit path checks what its resolver returns
not_found_edit_only(cps, req) ==
    /\ req.source_message_id # NONE /\ req.message
    /\ parent_checkpoint_id_of(cps, req) = NONE

\* the request names a message id that a resolver does not find
not_found(cps, req) ==
    /\ (req.source_message_id # NONE /\ req.message) \/ req.parent_message_id # NONE
    /\ parent_checkpoint_id_of(cps, req) = NONE

\* the human message saved by an "input" checkpoint: the one its start
\* step added
input_of(cps, c) ==
    Last(cps[CHOOSE d \in DOMAIN cps :
                 cps[d].parent = c /\ cps[d].source = "start"].messages)

\* the node the graph runs next when it is entered at a checkpoint
next_node(cp) ==
    CASE cp.source = "input" -> "start"
      [] cp.source = "start" -> entry_point
      [] cp.source = "agent" -> should_continue(cp.messages)
      [] cp.source = "approval" -> after_approval
      [] OTHER -> after_tools

\* stream_thread_run up to the first step of graph.stream(graph_input,
\* config): 404 when an id does not resolve; with a message, the input is
\* accepted at the resolved (or latest) checkpoint and a new turn starts at
\* the entry point; without one, the graph is re-entered at that checkpoint
stream_thread_run ==
    /\ run_status # "open"
    /\ run_id < MaxRuns
    /\ run_id' = run_id + 1
    /\ \E req \in Requests(KnownMessageIds(checkpoints)) :
         LET parent_checkpoint_id == parent_checkpoint_id_of(checkpoints, req)
             base == IF parent_checkpoint_id # NONE THEN parent_checkpoint_id
                     ELSE Len(checkpoints)
         IN /\ request' = req
            /\ fork' = parent_checkpoint_id
            /\ IF not_found(checkpoints, req)
               THEN /\ run_status' = "404"
                    /\ UNCHANGED <<messages, node, pending, checkpoints, head,
                                   nextMsgId, turns>>
               ELSE IF req.message
               THEN /\ checkpoints' = accept_input(checkpoints, base,
                                                   HumanMessage(nextMsgId, FALSE))
                    /\ messages' = Last(checkpoints').messages
                    /\ head' = Len(checkpoints')
                    /\ node' = entry_point
                    /\ pending' = <<>>
                    /\ nextMsgId' = nextMsgId + 1
                    /\ turns' = turns + 1
                    /\ run_status' = "open"
               ELSE IF base = NONE
               THEN \* no checkpoint and no input: graph.stream raises
                    /\ run_status' = "error"
                    /\ UNCHANGED <<messages, node, pending, checkpoints, head,
                                   nextMsgId, turns>>
               ELSE IF next_node(checkpoints[base]) = "start"
               THEN /\ checkpoints' =
                          Append(checkpoints,
                                 Checkpoint(base,
                                            add_messages(checkpoints[base].messages,
                                                         <<input_of(checkpoints, base)>>),
                                            "start"))
                    /\ messages' = Last(checkpoints').messages
                    /\ head' = Len(checkpoints')
                    /\ node' = entry_point
                    /\ pending' = <<>>
                    /\ run_status' = "open"
                    /\ UNCHANGED <<nextMsgId, turns>>
               ELSE /\ messages' = checkpoints[base].messages
                    /\ head' = base
                    /\ node' = next_node(checkpoints[base])
                    /\ pending' = <<>>
                    /\ run_status' = "open"
                    /\ UNCHANGED <<checkpoints, nextMsgId, turns>>
    /\ UNCHANGED <<nextCallId, route, modelInput, approved, invoked, snapshot>>
    /\ UNCHANGED <<chatVars, sanVars, apVars, storeVars, auxVars, streamVars>>

\* the end of event_stream(): graph.stream is exhausted (the turn ended or
\* is suspended) and the final snapshot is yielded
final_snapshot ==
    /\ run_status = "open"
    /\ node = "end" \/ (node = "approval" /\ pending # <<>>)
    /\ \E seed \in Uuid4Seeds : snapshot' = get_thread_snapshot(checkpoints, seed)
    /\ run_status' = "snapshot"
    /\ UNCHANGED <<run_id, request, fork>>
    /\ UNCHANGED <<graphVars, invoked, chatVars, sanVars, apVars, storeVars, auxVars, streamVars>>

\* mutant: the failed step leaves a checkpoint behind
call_model_raises_checkpointed ==
    /\ node = "agent"
    /\ run_status = "open"
    /\ run_status' = "error"
    /\ node' = "aborted"
    /\ checkpoints' = Append(checkpoints, Checkpoint(head, messages, "agent"))
    /\ head' = Len(checkpoints')
    /\ UNCHANGED <<messages, pending, nextMsgId, nextCallId, turns, route,
                   modelInput, approved>>
    /\ UNCHANGED <<run_id, request, fork, snapshot>>
    /\ UNCHANGED <<invoked, chatVars, sanVars, apVars, storeVars, auxVars, streamVars>>

\* call_model when model_with_tools.ainvoke raises: nothing catches the
\* exception inside the graph, the step writes nothing, graph.stream
\* raises into event_stream(), whose except branch yields the error event
call_model_raises ==
    /\ node = "agent"
    /\ run_status = "open"
    /\ run_status' = "error"
    /\ node' = "aborted"
    /\ UNCHANGED <<messages, pending, checkpoints, head, nextMsgId, nextCallId,
                   turns, route, modelInput, approved>>
    /\ UNCHANGED <<run_id, request, fork, snapshot>>
    /\ UNCHANGED <<invoked, chatVars, sanVars, apVars, storeVars, auxVars, streamVars>>

\* GET /threads/{thread_id}/messages, taken while no run is streaming: the
\* snapshot of the store as it is
get_thread_messages ==
    /\ run_status # "open"
    /\ \E seed \in Uuid4Seeds : snapshot' = get_thread_snapshot(checkpoints, seed)
    /\ UNCHANGED <<run_id, request, fork, run_status>>
    /\ UNCHANGED <<graphVars, invoked, chatVars, sanVars, apVars, storeVars, auxVars, streamVars>>

NextThread ==
    \/ stream_thread_run
    \/ CallModel
    \/ call_model_raises
    \/ get_thread_messages
    \/ ApprovalInterrupt
    \/ ExecuteTools
    \/ final_snapshot

SpecThread == Init /\ [][NextThread]_vars

-----------------------------------------------------------------------------
(* thread_routes.py: event_stream() of stream_thread_run over what          *)
(* graph.stream(..., stream_mode=["messages", "values"]) yields             *)

\* what the graph may yield: an assistant chunk with text, an assistant
\* chunk without text (a tool-call chunk), a tool message, a state value,
\* something that is not a (mode, payload) pair; "raise" is the graph
\* raising instead of yielding
StreamItems == {"ai_text", "ai_empty", "tool_message", "values", "malformed", "raise"}

\* _encode_run_event: the event with its sequence number
encode_run_event(event_sequence, type, item, repository) ==
    [type |-> type, sequence |-> event_sequence + 1, item |-> item,
     repository |-> repository]

\* the body of the loop for the k-th item
events_for(graph_items, k, event_sequence) ==
    CASE graph_items[k] = "ai_text" ->
            <<encode_run_event(event_sequence, "token", k, FALSE)>>
      [] graph_items[k] = "values" ->
            <<encode_run_event(event_sequence, "snapshot", k, FALSE)>>
      [] OTHER -> <<>>

\* mutant: the stream ends without the final snapshot
final_events_none(event_sequence) == SubSeq(<<event_sequence>>, 1, 0)

\* the snapshot yielded after the loop, built by _get_thread_snapshot
final_events(event_sequence) ==
    <<encode_run_event(event_sequence, "snapshot", NONE, TRUE)>>

\* mutant: the except branch logs the exception and yields nothing
error_events_none(event_sequence) == SubSeq(<<event_sequence>>, 1, 0)

\* the except branch
error_events(event_sequence) ==
    <<encode_run_event(event_sequence, "error", NONE, FALSE)>>

InitStream ==
    /\ GraphIdle /\ ChatIdle /\ StoreEmpty /\ AuxOff /\ SanOff /\ ApOff /\ invoked = {}
    /\ run_id = 1
    /\ request = [message |-> TRUE, parent_message_id |-> NONE,
                  source_message_id |-> NONE]
    /\ fork = NONE
    /\ snapshot = [checkpoint_id |-> NONE, messages |-> <<>>,
                   messageRepository |-> [headId |-> NONE, messages |-> <<>>]]
    /\ run_status = "open"
    /\ graph_events \in SeqsUpTo(StreamItems, MaxItems)
    /\ yielded = <<>>
    /\ streamPc = 0

\* one iteration of `for event in graph.stream(...)`
event_stream_next ==
    /\ run_status = "open"
    /\ streamPc < Len(graph_events)
    /\ IF graph_events[streamPc + 1] = "raise"
       THEN /\ yielded' = yielded \o error_events(Len(yielded))
            /\ run_status' = "error"
            /\ UNCHANGED streamPc
       ELSE /\ yielded' = yielded \o events_for(graph_events, streamPc + 1, Len(yielded))
            /\ streamPc' = streamPc + 1
            /\ UNCHANGED run_status
    /\ UNCHANGED <<graph_events, run_id, request, fork, snapshot>>
    /\ UNCHANGED <<graphVars, invoked, chatVars, sanVars, apVars, storeVars, auxVars>>

\* after the loop: the final snapshot, or the error event when building it
\* raises
event_stream_end ==
    /\ run_status = "open"
    /\ streamPc = Len(graph_events)
    /\ \E raised \in BOOLEAN :
         IF raised
         THEN /\ yielded' = yielded \o error_events(Len(yielded))
              /\ run_status' = "error"
         ELSE /\ yielded' = yielded \o final_events(Len(yielded))
              /\ run_status' = "snapshot"
    /\ UNCHANGED <<graph_events, streamPc, run_id, request, fork, snapshot>>
    /\ UNCHANGED <<graphVars, invoked, chatVars, sanVars, apVars, storeVars, auxVars>>

NextStream == event_stream_next \/ event_stream_end

SpecStream == InitStream /\ [][NextStream]_vars

-----------------------------------------------------------------------------
(* The sanitizer applied to an arbitrary message list *)

SanAlphabet ==
    {HumanMessage(0, FALSE), SystemMessage, AIMessage(0, <<>>, FALSE, FALSE),
     AIMessage(0, <<ToolCall(1, "current_weather", ORIGINAL_ARGS)>>, FALSE, FALSE),
     AIMessage(0, <<ToolCall(2, "get_current_time", ORIGINAL_ARGS)>>, FALSE, FALSE),
     AIMessage(0, <<ToolCall(1, "current_weather", ORIGINAL_ARGS),
                    ToolCall(2, "get_current_time", ORIGINAL_ARGS)>>, FALSE, FALSE),
     ToolMessage(0, 1, "result"), ToolMessage(0, 2, "result"),
     ToolMessage(0, 3, "result")}

InitSanitize ==
    /\ GraphIdle /\ ChatIdle /\ StoreEmpty /\ AuxOff /\ ApOff /\ ThreadIdle /\ StreamOff /\ invoked = {}
    /\ sanIn \in SeqsUpTo(SanAlphabet, MaxLen)
    /\ sanOut = <<>>
    /\ sanPc = "in"

Sanitize ==
    /\ sanPc = "in"
    /\ sanOut' = sanitize_and_validate_messages(sanIn)
    /\ sanPc' = "out"
    /\ UNCHANGED <<sanIn, graphVars, chatVars, invoked, apVars, storeVars, auxVars, threadVars, streamVars>>

NextSanitize == Sanitize

SpecSanitize == InitSanitize /\ [][NextSanitize]_vars

-----------------------------------------------------------------------------
(* lib/thread_store.py: ThreadStore, one JSON document per file of _base_dir.
   A thread id is a sequence of characters; the timestamps of a document are
   left out. *)

MaxWrites == 3

\* thread ids the routes hand to the store (any non-empty path segment)
ThreadIds == {<<"a">>, <<"a", ".">>, <<".">>}

\* str.isalnum for the characters in use
isalnum(ch) == ch \in {"a", "t", "h", "r", "e", "d"}

_sanitize_thread_id(thread_id) ==
    LET cleaned == SelectSeq(thread_id, LAMBDA ch : isalnum(ch) \/ ch \in {"-", "_"})
    IN IF cleaned = <<>> THEN <<"t", "h", "r", "e", "a", "d">> ELSE cleaned

\* the file name (without ".json") of a thread's document
thread_path(thread_id) == _sanitize_thread_id(thread_id)

default_document(thread_id) ==
    [id |-> thread_id, title |-> "New Chat", status |-> "regular",
     messages |-> <<>>, runs |-> <<>>, tool_calls |-> <<>>,
     history |-> [headId |-> NONE, messages |-> <<>>]]

\* path.exists()
exists(fs, thread_id) == thread_path(thread_id) \in DOMAIN fs

\* get_document: the document, or nothing (None) when the file is missing
get_document(fs, thread_id) ==
    IF exists(fs, thread_id) THEN <<fs[thread_path(thread_id)]>> ELSE <<>>

save_document(fs, thread_id, document) ==
    [p \in DOMAIN fs \cup {thread_path(thread_id)} |->
        IF p = thread_path(thread_id) THEN document ELSE fs[p]]

\* ensure_document: the files after the call, and the document it returns
ensure_document(fs, thread_id) ==
    IF exists(fs, thread_id) THEN fs
    ELSE save_document(fs, thread_id, default_document(thread_id))

ensured(fs, thread_id) == ensure_document(fs, thread_id)[thread_path(thread_id)]

replace_messages(fs, thread_id, stored_messages) ==
    save_document(fs, thread_id,
                  [ensured(fs, thread_id) EXCEPT !.messages = stored_messages])

append_run(fs, thread_id, run_record) ==
    save_document(fs, thread_id,
                  [ensured(fs, thread_id) EXCEPT !.runs = Append(@, run_record)])

\* upsert_tool_call: the record with the same id is merged, or it is appended
upsert_tool_call(fs, thread_id, tool_call) ==
    LET document == ensured(fs, thread_id)
        found == \E k \in DOMAIN document.tool_calls :
                    document.tool_calls[k].id = tool_call.id
        tool_calls ==
            IF found
            THEN [k \in DOMAIN document.tool_calls |->
                     IF document.tool_calls[k].id = tool_call.id THEN tool_call
                     ELSE document.tool_calls[k]]
            ELSE Append(document.tool_calls, tool_call)
    IN save_document(fs, thread_id, [document EXCEPT !.tool_calls = tool_calls])

\* the bookkeeping of a write of the store addressed to thread_id
store_write(thread_id) ==
    /\ store_writes < MaxWrites
    /\ store_target' = thread_id
    /\ store_writes' = store_writes + 1
    /\ UNCHANGED <<graphVars, invoked, chatVars, sanVars, apVars, auxVars, threadVars, streamVars>>

EnsureDocument ==
    \E thread_id \in ThreadIds :
       /\ files' = ensure_document(files, thread_id)
       /\ store_write(thread_id)

ReplaceMessages ==
    \E thread_id \in ThreadIds :
       /\ files' = replace_messages(files, thread_id, <<1>>)
       /\ store_write(thread_id)

AppendRun ==
    \E thread_id \in ThreadIds :
       /\ files' = append_run(files, thread_id, 1)
       /\ store_write(thread_id)

UpsertToolCall ==
    \E thread_id \in ThreadIds, st \in {"completed", "failed"} :
       /\ files' = upsert_tool_call(files, thread_id, [id |-> 1, status |-> st])
       /\ store_write(thread_id)

\* append_history_item: the item with the same message id is replaced, or
\* it is appended; headId becomes the item's message id
AppendHistoryItem ==
    \E thread_id \in ThreadIds, message_id \in {1, 2} :
       LET document == ensured(files, thread_id)
           old == document.history.messages
           history_messages ==
               IF \E k \in DOMAIN old : old[k] = message_id THEN old
               ELSE Append(old, message_id)
       IN /\ files' = save_document(files, thread_id,
                         [document EXCEPT !.history =
                             [headId |-> message_id, messages |-> history_messages]])
          /\ store_write(thread_id)

RenameThread ==
    \E thread_id \in ThreadIds :
       /\ files' = IF ~exists(files, thread_id) THEN files
                   ELSE save_document(files, thread_id,
                           [files[thread_path(thread_id)] EXCEPT !.title = "renamed"])
       /\ store_write(thread_id)

SetThreadStatus ==
    \E thread_id \in ThreadIds, st \in {"regular", "archived"} :
       /\ files' = IF ~exists(files, thread_id) THEN files
                   ELSE save_document(files, thread_id,
                           [files[thread_path(thread_id)] EXCEPT !.status = st])
       /\ store_write(thread_id)

DeleteThread ==
    \E thread_id \in ThreadIds :
       /\ files' = [p \in DOMAIN files \ {thread_path(thread_id)} |-> files[p]]
       /\ store_write(thread_id)

NextStore ==
    \/ EnsureDocument
    \/ ReplaceMessages
    \/ AppendRun
    \/ UpsertToolCall
    \/ AppendHistoryItem
    \/ RenameThread
    \/ SetThreadStatus
    \/ DeleteThread

SpecStore == Init /\ [][NextStore]_vars

-----------------------------------------------------------------------------
(* routes/chat.py: run_stream and the tool loop of its event_stream() *)

\* converted payload.messages of a run request (never empty: 400 otherwise)
ChatPayloads ==
    {<<HumanMessage(0, FALSE)>>,
     <<HumanMessage(0, FALSE), AIMessage(0, <<>>, FALSE, FALSE), HumanMessage(0, FALSE)>>}

\* tool names the streamed response may carry; "tool_0" is not in the catalog
ChatRequestedTools == RequestedTools \cup {"tool_0"}

\* mutant: the id does not name the round
ChatToolCallId_of_index(round, tool_index) == 1000 + tool_index

\* f"{run_id}:r{round_index}:t{tool_index}"
ChatToolCallId(round, tool_index) == 1000 + 10 * round + tool_index

\* _find_tool
find_tool(name) == name \in AVAILABLE_TOOLS

\* the thread the run requests are addressed to
CHAT_THREAD == <<"a">>

\* _event_line(payload): the event's type and the tool call it is about
event_line(type, tool_call_id) == [type |-> type, toolCallId |-> tool_call_id]

\* mutant: every run is recorded as complete
chat_run_record_complete(id, status) == [id |-> id, status |-> "complete"]

\* the record of append_run
chat_run_record(id, status) == [id |-> id, status |-> status]

\* the record of upsert_tool_call for one gathered call
chat_tool_call_record(tool_state, id, is_error) ==
    [id |-> tool_state.toolCallId, run_id |-> id, tool_name |-> tool_state.toolName,
     status |-> IF is_error THEN "failed" ELSE "completed"]

\* persisted_messages = [*payload.messages, assistant_message]: the
\* assistant message carries one tool-call part per call of the run
persisted_messages(payload, working_messages) ==
    [k \in DOMAIN payload |->
        [role |-> CASE payload[k].type = "human" -> "user"
                    [] payload[k].type = "ai" -> "assistant"
                    [] OTHER -> payload[k].type,
         tool_parts |-> <<>>]]
    \o <<[role |-> "assistant",
          tool_parts |->
             LET added == SubSeq(working_messages, Len(payload) + 1,
                                 Len(working_messages))
                 answers == SelectSeq(added, LAMBDA m : m.type = "tool")
             IN [k \in DOMAIN answers |-> answers[k].tcid]]>>

\* the end of the try block: the messages are stored, the run is recorded
\* as complete
complete_run(fs, thread_id, id, payload, working_messages) ==
    append_run(replace_messages(fs, thread_id,
                                persisted_messages(payload, working_messages)),
               thread_id, chat_run_record(id, "complete"))

\* the except branch: the run is recorded as failed
fail_run(fs, thread_id, id) ==
    append_run(fs, thread_id, chat_run_record(id, "failed"))

\* the upsert_tool_call calls of one tool round, in the order of the calls
RECURSIVE upsert_round(_, _, _, _, _, _)
upsert_round(fs, thread_id, id, states, k, failed) ==
    IF k > Len(states) THEN fs
    ELSE upsert_round(upsert_tool_call(fs, thread_id,
                         chat_tool_call_record(states[k], id, k \in failed)),
                      thread_id, id, states, k + 1, failed)

run_stream ==
    /\ chatPc = "idle"
    /\ \E payload \in ChatPayloads :
          /\ current_messages' = payload
          /\ chat_payload' = payload
    /\ run_id' = run_id + 1
    /\ files' = ensure_document(files, CHAT_THREAD)
    /\ yielded' = <<>>
    /\ round_index' = 0
    /\ tool_states' = <<>>
    /\ chatPc' = "model"
    /\ UNCHANGED astream_input
    /\ UNCHANGED <<request, fork, run_status, snapshot, graph_events, streamPc,
                   store_target, store_writes>>
    /\ UNCHANGED <<graphVars, invoked, sanVars, apVars, auxVars>>

\* one pass over model_with_tools.astream(current_messages): the tool-call
\* chunks are gathered by index; without any the loop is left. An exception
\* of the model reaches the except branch, which records the run as failed
\* and ends the stream with an error event; when the loop is left the
\* messages are stored, the run is recorded and the done event is yielded.
\* The text_delta events carry text only and are left out of `yielded`
ChatModelRound ==
    /\ chatPc = "model"
    /\ astream_input' = current_messages
    /\ \/ \E n \in 0..(IF round_index < MaxRounds THEN MaxChatBatch ELSE 0) :
            \E names \in [1..n -> ChatRequestedTools] :
              /\ tool_states' = [k \in 1..n |->
                                    [toolCallId |-> ChatToolCallId(round_index, k - 1),
                                     toolName |-> names[k],
                                     args |-> ORIGINAL_ARGS]]
              /\ chatPc' = IF n = 0 THEN "done" ELSE "tools"
              /\ files' = IF n = 0
                          THEN complete_run(files, CHAT_THREAD, run_id,
                                            chat_payload, current_messages)
                          ELSE files
              /\ yielded' =
                    IF n = 0 THEN Append(yielded, event_line("done", NONE))
                    ELSE yielded \o [k \in 1..n |->
                            event_line("tool_call", ChatToolCallId(round_index, k - 1))]
       \/ /\ chatPc' = "error"
          /\ files' = fail_run(files, CHAT_THREAD, run_id)
          /\ yielded' = Append(yielded, event_line("error", NONE))
          /\ UNCHANGED tool_states
    /\ UNCHANGED <<chat_payload, current_messages, round_index>>
    /\ UNCHANGED <<store_target, store_writes, graph_events, streamPc>>
    /\ UNCHANGED <<graphVars, invoked, sanVars, apVars, auxVars, threadVars>>

\* the result of one gathered call: an error payload when the tool is not
\* found or tool.invoke(args) raised, the tool's return value otherwise
tool_result_found_ok(found, raised) == IF found THEN "result" ELSE "error"

tool_result(found, raised) == IF found /\ ~raised THEN "result" ELSE "error"

\* the tool round: every gathered call whose tool is found is invoked (and
\* may raise), the assistant message and one ToolMessage per call are appended
ChatToolRound ==
    /\ chatPc = "tools"
    /\ \E raising \in SUBSET {i \in DOMAIN tool_states : find_tool(tool_states[i].toolName)} :
         LET ai_tool_calls ==
                 [k \in DOMAIN tool_states |->
                     ToolCall(tool_states[k].toolCallId, tool_states[k].toolName,
                              tool_states[k].args)]
             tool_messages ==
                 [k \in DOMAIN tool_states |->
                     ToolMessage(0, tool_states[k].toolCallId,
                                 tool_result(find_tool(tool_states[k].toolName),
                                             k \in raising))]
         IN /\ current_messages' =
                   Append(current_messages, AIMessage(0, ai_tool_calls, FALSE, FALSE))
                   \o tool_messages
            /\ invoked' = invoked \cup
                  {[path |-> "chat", id |-> tool_states[k].toolCallId,
                    name |-> tool_states[k].toolName, raised |-> k \in raising] :
                      k \in {i \in DOMAIN tool_states : find_tool(tool_states[i].toolName)}}
            /\ files' = upsert_round(files, CHAT_THREAD, run_id, tool_states, 1,
                            {k \in DOMAIN tool_states :
                                ~find_tool(tool_states[k].toolName) \/ k \in raising})
            /\ yielded' = yielded \o
                  [k \in DOMAIN tool_states |->
                      event_line("tool_result", tool_states[k].toolCallId)]
    /\ round_index' = round_index + 1
    /\ tool_states' = <<>>
    /\ chatPc' = "model"
    /\ UNCHANGED <<astream_input, chat_payload>>
    /\ UNCHANGED <<store_target, store_writes, graph_events, streamPc>>
    /\ UNCHANGED <<graphVars, sanVars, apVars, auxVars, threadVars>>

NextChat == run_stream \/ ChatModelRound \/ ChatToolRound

SpecChat == Init /\ [][NextChat]_vars

\* the thread's document before the request: missing, or left by earlier runs
EarlierDocuments ==
    {[default_document(CHAT_THREAD) EXCEPT
         !.messages = <<[role |-> "user", tool_parts |-> <<>>],
                        [role |-> "assistant", tool_parts |-> <<>>]>>,
         !.runs = <<chat_run_record(NONE, st)>>] : st \in {"complete", "failed"}}

InitChatStore ==
    /\ GraphIdle /\ ChatIdle /\ AuxOff /\ SanOff /\ ApOff /\ ThreadIdle /\ StreamOff
    /\ invoked = {}
    /\ files \in {<<>>} \cup
          {save_document(<<>>, CHAT_THREAD, document) : document \in EarlierDocuments}
    /\ store_target = <<>>
    /\ store_writes = 0

SpecChatStore == InitChatStore /\ [][NextChat]_vars

-----------------------------------------------------------------------------
(* lib/thread_store.py: two requests calling the store for one thread *)

RACE_THREAD == <<"a">>

\* the record caller c appends: run_record of append_run, tool_call of
\* upsert_tool_call (the callers' ids differ)
run_record(c) == 10 + c
tool_call_record(c) == [id |-> 20 + c, status |-> "completed"]

\* what append_run / upsert_tool_call do to the document they hold between
\* ensure_document and save_document
modified(document, op, c) ==
    IF op = "append_run"
    THEN [document EXCEPT !.runs = Append(@, run_record(c))]
    ELSE LET tool_call == tool_call_record(c)
             found == \E k \in DOMAIN document.tool_calls :
                         document.tool_calls[k].id = tool_call.id
         IN [document EXCEPT !.tool_calls =
                IF found
                THEN [k \in DOMAIN @ |-> IF @[k].id = tool_call.id
                                         THEN tool_call ELSE @[k]]
                ELSE Append(@, tool_call)]

\* the thread's file is missing, or holds a document with earlier records
InitRace ==
    /\ GraphIdle /\ ChatIdle /\ SanOff /\ ApOff /\ ThreadIdle /\ StreamOff
    /\ SerOff /\ RepoOff /\ invoked = {}
    /\ files \in {<<>>} \cup
          {save_document(<<>>, RACE_THREAD,
               [default_document(RACE_THREAD) EXCEPT !.runs = r, !.tool_calls = t]) :
             r \in {<<>>, <<1>>}, t \in {<<>>, <<[id |-> 2, status |-> "completed"]>>}}
    /\ store_target = <<>>
    /\ store_writes = 0
    /\ call_pc = [c \in Callers |-> "idle"]
    /\ call_op = [c \in Callers |-> "none"]
    /\ call_document = [c \in Callers |-> <<>>]

race_frame ==
    UNCHANGED <<graphVars, invoked, chatVars, sanVars, apVars, store_target,
                store_writes, serVars, repoVars, threadVars, streamVars>>

\* a request reaches its call of append_run or upsert_tool_call
call_begin(c) ==
    /\ call_pc[c] = "idle"
    /\ \E op \in {"append_run", "upsert_tool_call"} :
          call_op' = [call_op EXCEPT ![c] = op]
    /\ call_pc' = [call_pc EXCEPT ![c] = "get_document"]
    /\ UNCHANGED <<files, call_document>>
    /\ race_frame

\* ensure_document: get_document, under the lock; the lock is released when
\* it returns
call_get_document(c) ==
    /\ call_pc[c] = "get_document"
    /\ LET existing == get_document(files, RACE_THREAD)
       IN IF existing # <<>>
          THEN /\ call_document' = [call_document EXCEPT ![c] = existing]
               /\ call_pc' = [call_pc EXCEPT ![c] = "save_document"]
          ELSE /\ call_document' =
                     [call_document EXCEPT ![c] = <<default_document(RACE_THREAD)>>]
               /\ call_pc' = [call_pc EXCEPT ![c] = "save_default"]
    /\ UNCHANGED <<files, call_op>>
    /\ race_frame

\* ensure_document: save_document(thread_id, document) of the default
\* document, under the lock
call_save_default(c) ==
    /\ call_pc[c] = "save_default"
    /\ files' = save_document(files, RACE_THREAD, call_document[c][1])
    /\ call_pc' = [call_pc EXCEPT ![c] = "save_document"]
    /\ UNCHANGED <<call_op, call_document>>
    /\ race_frame

\* the method changes the document it was given and saves it, under the lock
call_save_document(c) ==
    /\ call_pc[c] = "save_document"
    /\ files' = save_document(files, RACE_THREAD,
                              modified(call_document[c][1], call_op[c], c))
    /\ call_pc' = [call_pc EXCEPT ![c] = "done"]
    /\ UNCHANGED <<call_op, call_document>>
    /\ race_frame

NextRace ==
    \E c \in Callers :
       \/ call_begin(c)
       \/ call_get_document(c)
       \/ call_save_default(c)
       \/ call_save_document(c)

SpecRace == InitRace /\ [][NextRace]_vars


-----------------------------------------------------------------------------
(* approval_node entered on an arbitrary message list and resumed with an
   arbitrary payload *)

\* batches of tool calls of the last assistant message, the empty one included
ApCallSeqs ==
    UNION {{[k \in 1..n |-> ToolCall(k, names[k], ORIGINAL_ARGS)] :
               names \in [1..n -> RequestedTools]} : n \in 0..MaxApCalls}

\* the message lists approval_node is entered with: the last message is an
\* assistant message with a batch of calls, a human message, or a tool message
ApStates ==
    {<<HumanMessage(1, FALSE), AIMessage(2, calls, FALSE, FALSE)>> : calls \in ApCallSeqs}
    \cup {<<HumanMessage(1, FALSE)>>,
          <<HumanMessage(1, FALSE),
            AIMessage(2, <<ToolCall(1, "current_weather", ORIGINAL_ARGS)>>, FALSE, FALSE),
            ToolMessage(3, 1, "result")>>}

InitApproval ==
    /\ ChatIdle /\ StoreEmpty /\ AuxOff /\ SanOff /\ ThreadIdle /\ StreamOff /\ invoked = {}
    /\ messages \in ApStates
    /\ node = "approval"
    /\ pending = <<>>
    /\ checkpoints = <<>>
    /\ head = 0
    /\ nextMsgId = 4
    /\ nextCallId = 1
    /\ turns = 1
    /\ route = "approval"
    /\ modelInput = <<>>
    /\ approved = {}
    /\ apCalls = IF Last(messages).type = "ai" THEN Last(messages).calls ELSE <<>>
    /\ apApproval \in IF need_approval(apCalls) # <<>>
                      THEN Approvals(CallIds(apCalls), MaxApCalls)
                      ELSE {Approval("legacy", <<>>, {}, {})}
    /\ apOut = <<>>
    /\ apPc = "enter"

\* approval_node up to interrupt(): it returns {"messages": []} when the
\* last message is not an assistant message with a dangerous call, and
\* suspends with the payload otherwise
EnterApproval ==
    /\ apPc = "enter"
    /\ LET last_message == Last(messages) IN
       IF last_message.type # "ai" \/ last_message.calls = <<>>
          \/ need_approval(last_message.calls) = <<>>
       THEN /\ apPc' = "returned"
            /\ UNCHANGED pending
       ELSE /\ apPc' = "suspended"
            /\ pending' = interrupt_payload(last_message.calls)
    /\ UNCHANGED <<apCalls, apApproval, apOut>>
    /\ UNCHANGED <<messages, node, checkpoints, head, nextMsgId, nextCallId, turns,
                   route, modelInput, approved>>
    /\ UNCHANGED <<chatVars, invoked, sanVars, storeVars, auxVars, threadVars, streamVars>>

ApplyDecision ==
    /\ apPc = "suspended"
    /\ apOut' = approval_node_resume(messages, apApproval)
    /\ apPc' = "resumed"
    /\ UNCHANGED <<apCalls, apApproval, graphVars, chatVars, invoked, sanVars, storeVars, auxVars,
                   threadVars, streamVars>>

NextApproval == EnterApproval \/ ApplyDecision

SpecApproval == InitApproval /\ [][NextApproval]_vars

-----------------------------------------------------------------------------
(* Properties *)

IsRequest(m) == m.type = "ai" /\ m.calls # <<>>

\* positions of the contiguous run of tool messages right after position i
RunAfter(s, i) ==
    {k \in DOMAIN s : k > i /\ \A l \in (i + 1)..k : s[l].type = "tool"}

\* every assistant message with tool calls is immediately followed by a
\* contiguous run of tool messages answering all of its calls
AnsweredContiguously(s) ==
    \A i \in DOMAIN s :
        IsRequest(s[i]) =>
            \A c \in CallIds(s[i].calls) : \E k \in RunAfter(s, i) : s[k].tcid = c

\* the assistant messages before position k that requested s[k].tcid
Requesters(s, k) ==
    {i \in 1..(k - 1) : s[i].type = "ai" /\ s[k].tcid \in CallIds(s[i].calls)}

\* no tool message without a requesting assistant message before it
NoOrphanTool(s) ==
    \A k \in DOMAIN s : s[k].type = "tool" => Requesters(s, k) # {}

\* every tool message lies in the run right after an assistant message that
\* requested it
ToolInRunOfRequester(s) ==
    \A k \in DOMAIN s :
        s[k].type = "tool" => \E i \in Requesters(s, k) : k \in RunAfter(s, i)

ExactlyOneRequester(s) ==
    \A k \in DOMAIN s : s[k].type = "tool" => Cardinality(Requesters(s, k)) = 1

\* no tool_call id is requested by two assistant messages of s
NoReusedCallId(s) ==
    \A i, j \in DOMAIN s :
        i # j => CallIds(s[i].calls) \cap CallIds(s[j].calls) = {}

\* C1: every invocation of a sensitive tool, on the graph path and in the
\* tool loop of routes/chat.py, was approved by a human decision on its
\* tool_call_id.
C1_SensitiveInvokedOnlyApproved ==
    \A inv \in invoked :
        inv.name \in DANGEROUS_TOOL_NAMES => inv.id \in approved

\* C2: after a model response the route is "end" when the response has no
\* tool calls, "approval" when at least one requested name is sensitive
\* (mixed batches included), "tools" otherwise.
C2_Routing ==
    (head > 0 /\ checkpoints[head].source = "agent") =>
        LET calls == Last(messages).calls
            sensitive == {k \in DOMAIN calls : calls[k].name = "current_weather"}
        IN /\ calls = <<>> => route = "end"
           /\ sensitive # {} => route = "approval"
           /\ (calls # <<>> /\ sensitive = {}) => route = "tools"
           /\ node = route

C2_Witness ==
    /\ head > 0 /\ checkpoints[head].source = "agent"
    /\ route = "approval"
    /\ \E k \in DOMAIN Last(messages).calls :
          Last(messages).calls[k].name = "get_current_time"

\* C3: within a turn the graph moves only along agent -> {approval, tools,
\* end}, approval -> tools (after the suspension), tools -> agent; "end" is
\* entered only on a response without tool calls and "tools" only on a
\* response with tool calls.
C3_Edges ==
    [][node' # node =>
        \/ node \in {"idle", "end"} /\ node' = "agent"
        \/ /\ node = "agent"
           /\ node' \in {"approval", "tools", "end"}
           /\ node' = "end" <=> Last(messages').calls = <<>>
           /\ node' = "tools" =>
                 \A k \in DOMAIN Last(messages').calls :
                     Last(messages').calls[k].name \notin DANGEROUS_TOOL_NAMES
           /\ node' = "approval" =>
                 \E k \in DOMAIN Last(messages').calls :
                     Last(messages').calls[k].name \in DANGEROUS_TOOL_NAMES
        \/ node = "approval" /\ pending # <<>> /\ node' = "tools"
        \/ node = "tools" /\ node' = "agent"]_vars

C3_Witness ==
    /\ node = "agent"
    /\ head > 0 /\ checkpoints[head].source = "tools"
    /\ \E c \in DOMAIN checkpoints : checkpoints[c].source = "approval"

\* C4 (as claimed): in the sanitizer's output every tool message has exactly
\* one preceding assistant message requesting its tool_call_id, and every
\* assistant message with tool calls is answered contiguously.
C4_PairingExactlyOne ==
    sanPc = "out" => ExactlyOneRequester(sanOut) /\ AnsweredContiguously(sanOut)

\* C4 (amended): in the sanitizer's output every tool message lies in the
\* run right after an assistant message requesting its tool_call_id (exactly
\* one requester when the input reuses no tool_call id), and every assistant
\* message with tool calls is answered contiguously.
C4_Pairing ==
    sanPc = "out" =>
        /\ ToolInRunOfRequester(sanOut)
        /\ AnsweredContiguously(sanOut)
        /\ NoReusedCallId(sanIn) => ExactlyOneRequester(sanOut)

C4_Witness ==
    /\ sanPc = "out"
    /\ Len(sanOut) < Len(sanIn)
    /\ \E i \in DOMAIN sanOut : IsRequest(sanOut[i]) /\ Len(sanOut[i].calls) = 2
    /\ \E k \in DOMAIN sanIn : sanIn[k].type = "tool" /\ sanIn[k].tcid = 3

\* C5: the message list handed to the model keeps the pairing invariant.
C5_ModelInputPairing ==
    AnsweredContiguously(modelInput) /\ NoOrphanTool(modelInput)

\* The decision recorded for a call by a payload: the last entry of
\* "decisions" that is an object naming the call with a decision of
\* approved or rejected.
ValidEntries(id) ==
    IF apApproval.form # "decisions" THEN {}
    ELSE {k \in DOMAIN apApproval.decisions :
             /\ apApproval.decisions[k].isdict
             /\ apApproval.decisions[k].id = id
             /\ apApproval.decisions[k].decision \in {"approved", "rejected"}}

RecordedEntry(id) ==
    apApproval.decisions[CHOOSE k \in ValidEntries(id) :
                             \A l \in ValidEntries(id) : l <= k]

Recorded(id) ==
    IF ValidEntries(id) = {} THEN "none" ELSE RecordedEntry(id).decision

Declined(id) ==
    IF apApproval.form = "legacy" THEN id \notin apApproval.approved_ids
    ELSE Recorded(id) # "approved"

\* the tool calls of the assistant message returned by the resumed node
OutCalls ==
    LET ai == {k \in DOMAIN apOut : apOut[k].type = "ai"}
    IN IF ai = {} THEN <<>> ELSE apOut[CHOOSE k \in ai : TRUE].calls

Sensitive(tc) == tc.name \in DANGEROUS_TOOL_NAMES

NotSensitive(tc) == tc.name \notin DANGEROUS_TOOL_NAMES

\* C6: on resume every sensitive call that was rejected or has no decision
\* is removed from the assistant message, and a tool-result message
\* "Tool call rejected by user." with its tool_call_id is added.
C6_RejectedAnsweredByToolResult ==
    apPc = "resumed" =>
        \A k \in DOMAIN apCalls :
            (Sensitive(apCalls[k]) /\ Declined(apCalls[k].id)) =>
                /\ apCalls[k].id \notin CallIds(OutCalls)
                /\ \E j \in DOMAIN apOut :
                      /\ apOut[j].type = "tool"
                      /\ apOut[j].content = REJECTED_CONTENT
                      /\ apOut[j].tcid = apCalls[k].id

\* C7 (as claimed): an approved sensitive call is always kept, with the
\* override when it is an object and with its original arguments otherwise.
C7_ApprovedAlwaysKept ==
    apPc = "resumed" =>
        \A k \in DOMAIN apCalls :
            (Sensitive(apCalls[k]) /\ Recorded(apCalls[k].id) = "approved") =>
                \E j \in DOMAIN OutCalls :
                    /\ OutCalls[j].id = apCalls[k].id
                    /\ OutCalls[j].name = apCalls[k].name
                    /\ OutCalls[j].args =
                          IF RecordedEntry(apCalls[k].id).arguments \in ArgObjects
                          THEN RecordedEntry(apCalls[k].id).arguments
                          ELSE apCalls[k].args

\* C7 (amended): an approved sensitive call is kept with the override when
\* the override is an object, kept with its original arguments when no
\* override is given, and dropped when the override is not an object.
C7_ApprovedKeptUnlessBadOverride ==
    apPc = "resumed" =>
        \A k \in DOMAIN apCalls :
            (Sensitive(apCalls[k]) /\ Recorded(apCalls[k].id) = "approved") =>
                LET given == RecordedEntry(apCalls[k].id).arguments IN
                IF given = NON_OBJECT
                THEN apCalls[k].id \notin CallIds(OutCalls)
                ELSE \E j \in DOMAIN OutCalls :
                        /\ OutCalls[j].id = apCalls[k].id
                        /\ OutCalls[j].name = apCalls[k].name
                        /\ OutCalls[j].args =
                              IF given = NO_ARGS THEN apCalls[k].args ELSE given

C7_Witness ==
    /\ apPc = "resumed"
    /\ \E k \in DOMAIN apCalls :
          /\ Sensitive(apCalls[k])
          /\ Recorded(apCalls[k].id) = "approved"
          /\ RecordedEntry(apCalls[k].id).arguments = "args1"
          /\ \E j \in DOMAIN OutCalls :
                OutCalls[j].id = apCalls[k].id /\ OutCalls[j].args = "args1"
    /\ \E k \in DOMAIN apCalls :
          /\ Sensitive(apCalls[k])
          /\ Recorded(apCalls[k].id) = "approved"
          /\ RecordedEntry(apCalls[k].id).arguments = NON_OBJECT

\* C8: on resume every call that is not sensitive is kept with unchanged
\* id, name and arguments, and the kept calls keep their relative order.
C8_SafeCallsKept ==
    apPc = "resumed" =>
        /\ SelectSeq(OutCalls, NotSensitive) = SelectSeq(apCalls, NotSensitive)
        /\ \A i, j \in DOMAIN OutCalls : i < j => OutCalls[i].id < OutCalls[j].id
        /\ CallIds(OutCalls) \subseteq CallIds(apCalls)

C8_Witness ==
    /\ apPc = "resumed"
    /\ Len(apCalls) = 2
    /\ NotSensitive(apCalls[1]) /\ Sensitive(apCalls[2])
    /\ Len(OutCalls) = 2
    /\ OutCalls[2].args = "args1"

\* C9: the {approved_ids, rejected_ids} form is honoured: with calls
\* a (current_weather) and b (get_current_time), {approved_ids: [a]} keeps
\* a and b, and {approved_ids: []} drops a and keeps b.
C9_PartitionFormHonoured ==
    (/\ apPc = "resumed"
     /\ apApproval.form = "legacy"
     /\ apCalls = <<ToolCall(1, "current_weather", ORIGINAL_ARGS),
                    ToolCall(2, "get_current_time", ORIGINAL_ARGS)>>) =>
        /\ apApproval.approved_ids = {1} => OutCalls = apCalls
        /\ apApproval.approved_ids = {} => OutCalls = <<apCalls[2]>>

IsPrefix(p, s) == Len(p) <= Len(s) /\ SubSeq(s, 1, Len(p)) = p

\* C10 (as claimed): the message list of every checkpoint is the message
\* list of its parent followed by a non-empty suffix.
C10_StrictExtension ==
    \A c \in DOMAIN checkpoints :
        checkpoints[c].parent > 0 =>
            LET P == checkpoints[checkpoints[c].parent].messages
                C == checkpoints[c].messages
            IN IsPrefix(P, C) /\ Len(C) > Len(P)

\* C10 (amended): the checkpoint that saves a run's input has its parent's
\* list, the one written by the start step is its parent's list plus the one
\* human message, one written by a model call is its parent's list
\* plus one assistant message; one written by tool execution is its parent's
\* list plus one tool message per tool call of the parent's trailing
\* assistant message (none when no call is left); one written by the
\* approval step has the parent's length and prefix, its trailing assistant
\* message replaced by one of the same id whose tool calls are a
\* subsequence of the original ones.
C10_StepExtension ==
    \A c \in DOMAIN checkpoints :
        checkpoints[c].parent > 0 =>
            LET P == checkpoints[checkpoints[c].parent].messages
                C == checkpoints[c].messages
                src == checkpoints[c].source
            IN /\ src = "input" => C = P
               /\ src = "start" =>
                    IsPrefix(P, C) /\ Len(C) = Len(P) + 1 /\ Last(C).type = "human"
               /\ src = "agent" =>
                    IsPrefix(P, C) /\ Len(C) = Len(P) + 1 /\ Last(C).type = "ai"
               /\ src = "tools" =>
                    /\ IsPrefix(P, C)
                    /\ Len(C) = Len(P) + Len(Last(P).calls)
                    /\ \A k \in DOMAIN Last(P).calls :
                          /\ C[Len(P) + k].type = "tool"
                          /\ C[Len(P) + k].tcid = Last(P).calls[k].id
               /\ src = "approval" =>
                    /\ Len(C) = Len(P)
                    /\ SubSeq(C, 1, Len(C) - 1) = SubSeq(P, 1, Len(P) - 1)
                    /\ Last(C).type = "ai" /\ Last(C).id = Last(P).id
                    /\ CallIds(Last(C).calls) \subseteq CallIds(Last(P).calls)
                    /\ \A i, j \in DOMAIN Last(C).calls :
                          i < j => Last(C).calls[i].id < Last(C).calls[j].id

C10_Witness ==
    \E c \in DOMAIN checkpoints :
        /\ checkpoints[c].source = "approval"
        /\ checkpoints[c].parent > 0
        /\ Len(Last(checkpoints[c].messages).calls)
              < Len(Last(checkpoints[checkpoints[c].parent].messages).calls)
        /\ \E d \in DOMAIN checkpoints :
              checkpoints[d].parent = c /\ checkpoints[d].source = "tools"

-----------------------------------------------------------------------------
(* Suspension, termination, idempotence *)

\* the trailing message is an assistant message with at least one sensitive
\* tool call that no tool message of the list answers
UnansweredSensitive(msgs) ==
    /\ msgs # <<>>
    /\ Last(msgs).type = "ai"
    /\ \E k \in DOMAIN Last(msgs).calls :
          /\ Last(msgs).calls[k].name \in DANGEROUS_TOOL_NAMES
          /\ \A i \in DOMAIN msgs :
                msgs[i].type = "tool" => msgs[i].tcid # Last(msgs).calls[k].id

LatestMessages ==
    IF checkpoints = <<>> THEN <<>> ELSE Last(checkpoints).messages

\* the turn is at the approval node (about to suspend, or suspended)
AwaitingApproval == node = "approval"

C18_Termination ==
    [][(node = "agent" /\ messages' # messages /\ Last(messages').calls = <<>>)
          => /\ node' = "end"
             /\ Len(checkpoints') = Len(checkpoints) + 1
             /\ Last(checkpoints').source = "agent"
             /\ Last(checkpoints').messages = messages']_vars

C18_Witness ==
    /\ node = "end"
    /\ Last(checkpoints).source = "agent"
    /\ \E c \in DOMAIN checkpoints : checkpoints[c].source = "tools"

\* C19: sanitizing the sanitizer's output returns it unchanged.
C19_Idempotent ==
    sanPc = "out" => sanitize_and_validate_messages(sanOut) = sanOut

C19_Witness ==
    /\ sanPc = "out"
    /\ sanOut # <<>>
    /\ Len(sanOut) < Len(sanIn)
    /\ \E i \in DOMAIN sanIn : i < Len(sanIn) /\ IsRequest(sanIn[i]) /\ IsRequest(sanIn[i + 1])
    /\ \E i \in DOMAIN sanOut : sanOut[i].type = "tool"

-----------------------------------------------------------------------------
(* Edit / regenerate forks and the reconstructed repository *)

\* the checkpoint that introduced a message: the oldest one of the whole
\* store that holds it
Introduced(m) ==
    CHOOSE c \in DOMAIN checkpoints :
        /\ m \in MessageIds(checkpoints[c].messages)
        /\ \A d \in DOMAIN checkpoints :
              m \in MessageIds(checkpoints[d].messages) => c <= d

Indexed == DOMAIN build_checkpoint_indexes(checkpoints)

Fetched == {get_history(checkpoints)[k] : k \in DOMAIN get_history(checkpoints)}

Repository(cps) ==
    get_thread_snapshot(cps, CHOOSE seed \in Uuid4Seeds : TRUE).messageRepository.messages

RepositoryIds(cps) == {Repository(cps)[k].id : k \in DOMAIN Repository(cps)}

ParentIdIn(repo, m) == (CHOOSE k \in DOMAIN repo : repo[k].id = m)

\* the last request was an edit (a message with a source_message_id) that
\* resolved, and its stream has delivered the final snapshot
EditDone ==
    /\ run_status = "snapshot"
    /\ request.message /\ request.source_message_id # NONE
    /\ fork # NONE

\* the start checkpoint written by the last accepted message
LatestStart ==
    CHOOSE c \in DOMAIN checkpoints :
        /\ checkpoints[c].source = "start"
        /\ \A d \in DOMAIN checkpoints :
              checkpoints[d].source = "start" => d <= c

\* C11: after an edit of message X, the new checkpoint's parent is the
\* parent of the checkpoint that introduced X, and the next snapshot's
\* repository holds X, what followed X, and the new message, X and the new
\* message having the same parentId.
C11_EditRoundTrip ==
    (EditDone /\ \E c \in DOMAIN checkpoints :
                    \E i \in DOMAIN checkpoints[c].messages :
                        /\ checkpoints[c].messages[i].id = request.source_message_id
                        /\ checkpoints[c].messages[i].type # "tool") =>
        LET X == request.source_message_id
            N == Last(checkpoints[LatestStart].messages).id
            repo == snapshot.messageRepository.messages
            ids == {repo[k].id : k \in DOMAIN repo}
        IN /\ checkpoints[checkpoints[LatestStart].parent].parent
                 = checkpoints[Introduced(X)].parent
           /\ X \in ids /\ N \in ids
           /\ repo[ParentIdIn(repo, X)].parentId = repo[ParentIdIn(repo, N)].parentId
           /\ \A c \in DOMAIN checkpoints :
                 \A i \in DOMAIN checkpoints[c].messages :
                    (checkpoints[c].messages[i].type # "tool"
                       /\ X \in MessageIds(checkpoints[c].messages))
                        => checkpoints[c].messages[i].id \in ids

\* C12: for every indexed message id, _resolve_edit_checkpoint returns the
\* parent of the checkpoint that introduced the message, a checkpoint whose
\* message list does not hold the message.
C12_EditResolvesToParent ==
    \A m \in Indexed :
        LET c == resolve_edit_checkpoint(checkpoints, m)
        IN /\ c # NONE
           /\ c = checkpoints[Introduced(m)].parent
           /\ m \notin MessageIds(checkpoints[c].messages)

\* C13: for every indexed message id, _resolve_parent_checkpoint returns
\* the oldest fetched checkpoint that holds the message; a run issued with
\* that parent_message_id continues from that checkpoint's message list.
C13_ParentResolvesToHolder ==
    /\ \A m \in Indexed :
          LET c == resolve_parent_checkpoint(checkpoints, m)
          IN /\ c \in Fetched
             /\ m \in MessageIds(checkpoints[c].messages)
             /\ \A d \in Fetched :
                   m \in MessageIds(checkpoints[d].messages) => c <= d
    /\ (run_status = "open" /\ request.parent_message_id # NONE) =>
          /\ fork # NONE
          /\ request.parent_message_id \in MessageIds(checkpoints[fork].messages)
          /\ IsPrefix(SubSeq(checkpoints[fork].messages, 1,
                              Len(checkpoints[fork].messages) - 1), messages)
          /\ request.parent_message_id \in MessageIds(messages)

C13_Witness ==
    /\ run_status = "open"
    /\ request.parent_message_id # NONE
    /\ request.message
    /\ fork # NONE /\ fork < Len(checkpoints) - 2
    /\ Len(messages) > Len(checkpoints[fork].messages)

\* C14: every entry of the repository reconstructed before a step is in
\* the repository reconstructed after it, with the same parentId.
C14_RepositoryOnlyGrows ==
    [][\A k \in DOMAIN Repository(checkpoints) :
          \E j \in DOMAIN Repository(checkpoints') :
              /\ Repository(checkpoints')[j].id = Repository(checkpoints)[k].id
              /\ Repository(checkpoints')[j].parentId
                    = Repository(checkpoints)[k].parentId]_vars

\* a message id that is given and that the index does not hold
AbsentId(x, cps) == x # NONE /\ x \notin DOMAIN build_checkpoint_indexes(cps)

\* the request failed before any graph step: nothing was written or yielded
FailedBeforeGraph ==
    /\ run_status' = "404"
    /\ checkpoints' = checkpoints /\ messages' = messages
    /\ node' = node /\ head' = head
    /\ snapshot' = snapshot /\ yielded' = yielded

\* C15 (as claimed): a request whose parent_message_id or source_message_id
\* is absent from the index fails with 404 before any graph step.
C15_AbsentIdFails ==
    [][(run_id' # run_id
          /\ (AbsentId(request'.parent_message_id, checkpoints)
                \/ AbsentId(request'.source_message_id, checkpoints)))
        => FailedBeforeGraph]_vars

\* the id a request resolves: source_message_id when it carries a message,
\* parent_message_id otherwise
ResolvedId(req) ==
    IF req.source_message_id # NONE /\ req.message
    THEN req.source_message_id ELSE req.parent_message_id

\* C15 (amended): a request fails with 404 before any graph step when the
\* id it resolves is absent from the index; a source_message_id sent
\* without a message is not resolved.
C15_ResolvedAbsentIdFails ==
    [][(run_id' # run_id /\ AbsentId(ResolvedId(request'), checkpoints))
        => FailedBeforeGraph]_vars

C15_Witness ==
    /\ run_status = "404"
    /\ checkpoints # <<>>
    /\ request.message /\ request.source_message_id = UNKNOWN_MESSAGE_ID
    /\ snapshot.messages # <<>>

\* the turn is suspended at the approval node
Suspended == node = "approval" /\ pending # <<>>

\* C17: a run request against a suspended thread is rejected, or re-enters
\* the pending approval; it never starts a turn of its own.
C17_NoSecondTurn ==
    [][(Suspended /\ run_id' # run_id)
        => \/ run_status' \in {"404", "error"}
           \/ node' = "approval" /\ checkpoints' = checkpoints]_vars

-----------------------------------------------------------------------------
(* The event stream of a run *)

TokenEvents == SelectSeq(yielded, LAMBDA e : e.type = "token")

\* positions of the items that carry text, in the order the graph yielded them
RECURSIVE TextItems(_, _)
TextItems(items, k) ==
    IF k > Len(items) THEN <<>>
    ELSE IF items[k] = "ai_text" THEN <<k>> \o TextItems(items, k + 1)
    ELSE TextItems(items, k + 1)

\* C20: in a stream that ended without an exception the token events are
\* those of the graph's text chunks, in the graph's order; the snapshot
\* built from the persisted state is yielded once, as the last event, after
\* every token; sequence numbers count the events.
C20_TokensThenFinalSnapshot ==
    run_status = "snapshot" =>
        /\ [k \in DOMAIN TokenEvents |-> TokenEvents[k].item]
              = TextItems(graph_events, 1)
        /\ yielded # <<>>
        /\ Last(yielded).type = "snapshot" /\ Last(yielded).repository
        /\ \A k \in DOMAIN yielded :
              /\ yielded[k].sequence = k
              /\ yielded[k].repository => k = Len(yielded)
              /\ yielded[k].type # "error"

C20_Witness ==
    /\ run_status = "snapshot"
    /\ Len(TokenEvents) >= 2
    /\ \E k \in DOMAIN yielded :
          yielded[k].type = "snapshot" /\ ~yielded[k].repository
    /\ Len(yielded) < Len(graph_events) + 1

ErrorEvents == SelectSeq(yielded, LAMBDA e : e.type = "error")

\* C21: a stream in which the graph, or the building of the final
\* snapshot, raised ends with one error event: it is the only error event
\* and the last event, after which nothing is yielded.
C21_SingleFinalError ==
    /\ Len(ErrorEvents) <= 1
    /\ run_status = "error" <=> Len(ErrorEvents) = 1
    /\ Len(ErrorEvents) = 1 =>
          /\ Last(yielded).type = "error"
          /\ \A k \in DOMAIN yielded : yielded[k].repository = FALSE
          /\ \A k \in DOMAIN yielded : yielded[k].sequence = k

C21_Witness ==
    /\ run_status = "error"
    /\ Len(yielded) >= 3
    /\ streamPc < Len(graph_events) - 1
    /\ \E k \in DOMAIN yielded : yielded[k].type = "token"
    /\ \E k \in DOMAIN yielded : yielded[k].type = "snapshot"

\* the gathered calls of the round in progress that fail: the tool name is
\* not in the catalog, or the invocation raised
FailedChatCalls ==
    {tool_states[k].toolCallId : k \in {i \in DOMAIN tool_states :
        \/ ~find_tool(tool_states[i].toolName)
        \/ \E inv \in invoked' : inv.id = tool_states[i].toolCallId /\ inv.raised}}

ErrorResultFor(s, id) ==
    \E k \in DOMAIN s : s[k].type = "tool" /\ s[k].tcid = id /\ s[k].content = "error"

C23_FailedStepLeavesNoCheckpoint ==
    [][/\ (node = "agent" /\ node' = "aborted") =>
            /\ run_status' = "error"
            /\ checkpoints' = checkpoints
            /\ messages' = messages
            /\ head' = head
       /\ (node = "aborted" /\ run_status' = "open" /\ fork' = NONE) =>
            IF request'.message
            THEN /\ node' = "agent"
                 /\ Len(messages') = Len(Last(checkpoints).messages) + 1
                 /\ IsPrefix(Last(checkpoints).messages, messages')
            ELSE /\ messages' = Last(checkpoints).messages
                 /\ checkpoints' = checkpoints
                 /\ head = Len(checkpoints) => (node' = "agent" /\ messages' = messages)
      ]_vars

C23_Witness ==
    /\ run_id = 2
    /\ run_status = "open"
    /\ node = "agent"
    /\ ~request.message
    /\ fork = NONE
    /\ Len(checkpoints) = 2
    /\ Last(checkpoints).source = "start"

\* C24: a ThreadStore write addressed to one thread id leaves what
\* get_document returns for every other thread id as it was.
C24_ThreadsShareNoState ==
    [][\A other \in ThreadIds :
          other # store_target' =>
             get_document(files', other) = get_document(files, other)]_vars

PartsOf(s) == UNION {{s[k].parts[j] : j \in DOMAIN s[k].parts} : k \in DOMAIN s}

StoredParts ==
    PartsOf(messages) \cup
        UNION {PartsOf(checkpoints[c].messages) : c \in DOMAIN checkpoints}

\* the references the state holds that the model call resolves: those of
\* the messages that survive trimming and sanitising
ReferencesHandedOver ==
    \E k \in DOMAIN modelInput :
       /\ BLOB_LINK \in PartsOf(<<modelInput[k]>>)
       /\ \E j \in DOMAIN messages :
             /\ messages[j].id = modelInput[k].id
             /\ CHATBOT_REF \in PartsOf(<<messages[j]>>)

\* C25: the agent state and every checkpoint hold the chatbot:// references
\* as the client sent them and never a resolved link; the list handed to
\* the model holds the link in place of every reference of a known
\* attachment.
C25_ReferencesKeptInState ==
    /\ BLOB_LINK \notin StoredParts
    /\ CHATBOT_REF \notin PartsOf(modelInput)
    /\ \A k \in DOMAIN modelInput :
          \A j \in DOMAIN messages :
             (messages[j].id = modelInput[k].id /\ messages[j].type = "human") =>
                /\ Len(modelInput[k].parts) = Len(messages[j].parts)
                /\ \A i \in DOMAIN messages[j].parts :
                      modelInput[k].parts[i] =
                         process_image_url_item(messages[j].parts[i])

C25_Witness ==
    /\ ReferencesHandedOver
    /\ CHATBOT_REF_UNKNOWN \in PartsOf(modelInput)
    /\ node = "end"
    /\ Len(checkpoints) >= 5
    /\ CHATBOT_REF \in PartsOf(Last(checkpoints).messages)

\* kinds of malformed entry: an entry the scan of the decision list skips
\* (not an object, no id, a decision other than approved / rejected) ...
SkippedEntry(item) ==
    \/ ~item.isdict
    \/ item.id = 0
    \/ item.decision \notin {"approved", "rejected"}

\* ... and an entry whose arguments override is not an object
MalformedEntry(item) == SkippedEntry(item) \/ item.arguments = NON_OBJECT

WithoutEntries(approval, Dropped(_)) ==
    [approval EXCEPT !.decisions = SelectSeq(@, LAMBDA item : ~Dropped(item))]

EntriesFor(id) ==
    {k \in DOMAIN apApproval.decisions :
        apApproval.decisions[k].isdict /\ apApproval.decisions[k].id = id}

\* C26 (as claimed): the outcome of a resume is the outcome of the payload
\* without its malformed entries.
C26_MalformedIgnored ==
    (apPc = "resumed" /\ apApproval.form = "decisions") =>
        apOut = approval_node_resume(messages, WithoutEntries(apApproval, MalformedEntry))

\* C26 (amended): entries that are not an object, have no id or have an
\* invalid decision are ignored; an entry whose override is not an object is
\* recorded like a well-formed one and its call is dropped when it is the
\* last recorded entry of the call; a sensitive call to which only malformed
\* entries refer is dropped.
C26_MalformedGivesNoApproval ==
    (apPc = "resumed" /\ apApproval.form = "decisions") =>
        /\ apOut = approval_node_resume(messages, WithoutEntries(apApproval, SkippedEntry))
        /\ \A k \in DOMAIN apCalls :
              (/\ Sensitive(apCalls[k])
               /\ \A e \in EntriesFor(apCalls[k].id) :
                     MalformedEntry(apApproval.decisions[e]))
                 => apCalls[k].id \notin CallIds(OutCalls)
        /\ \A k \in DOMAIN apCalls :
              (/\ Sensitive(apCalls[k])
               /\ \E e \in EntriesFor(apCalls[k].id) :
                     /\ ~SkippedEntry(apApproval.decisions[e])
                     /\ apApproval.decisions[e].arguments = NON_OBJECT
                     /\ \A l \in EntriesFor(apCalls[k].id) :
                           l > e => SkippedEntry(apApproval.decisions[l]))
                 => apCalls[k].id \notin CallIds(OutCalls)

C26_Witness ==
    /\ apPc = "resumed"
    /\ apApproval.form = "decisions"
    /\ Len(apApproval.decisions) = 2
    /\ apApproval.decisions[1] = DecisionItem(TRUE, 1, "approved", NO_ARGS)
    /\ apApproval.decisions[2] = DecisionItem(TRUE, 1, "approved", NON_OBJECT)
    /\ Sensitive(apCalls[1])
    /\ OutCalls = <<>>

\* positions of the sensitive calls of the batch
SensitivePositions == {i \in DOMAIN apCalls : Sensitive(apCalls[i])}

\* C27: approval_node suspends exactly when the last message is an
\* assistant message with a sensitive call; the payload then holds the
\* sensitive calls and only them, in request order, as {id, name,
\* arguments}; otherwise the node returns an empty update and no payload.
C27_SuspendsIffSensitive ==
    apPc # "enter" =>
        /\ apPc \in {"suspended", "resumed"} <=>
              (Last(messages).type = "ai" /\
               \E i \in DOMAIN Last(messages).calls : Sensitive(Last(messages).calls[i]))
        /\ apPc \in {"suspended", "resumed"} =>
              /\ Len(pending) = Cardinality(SensitivePositions)
              /\ \A i \in SensitivePositions :
                    pending[Cardinality({j \in SensitivePositions : j <= i})] =
                       [id |-> apCalls[i].id, name |-> apCalls[i].name,
                        arguments |-> apCalls[i].args]
        /\ apPc = "returned" =>
              /\ pending = <<>>
              /\ apOut = <<>>
              /\ add_messages(messages, apOut) = messages

C27_Witness ==
    /\ apPc = "suspended"
    /\ Len(apCalls) = 2
    /\ NotSensitive(apCalls[1]) /\ Sensitive(apCalls[2])
    /\ Len(pending) = 1

\* the messages of s at the positions K, in the order of s
RECURSIVE Restrict(_, _, _)
Restrict(s, K, i) ==
    IF i > Len(s) THEN <<>>
    ELSE (IF i \in K THEN <<s[i]>> ELSE <<>>) \o Restrict(s, K, i + 1)

PlainMessage(m) ==
    m.type \in {"human", "system"} \/ (m.type = "ai" /\ m.calls = <<>>)

\* the position of the message right before the run of tool messages that
\* position p of s belongs to (0 when the run starts the list)
RECURSIVE RunOpener(_, _)
RunOpener(s, p) ==
    IF p = 0 \/ s[p].type # "tool" THEN p ELSE RunOpener(s, p - 1)

\* a tool message without a matching assistant message right before its run
OrphanPosition(s, p) ==
    /\ s[p].type = "tool"
    /\ LET r == RunOpener(s, p)
       IN r = 0 \/ s[r].type # "ai" \/ s[p].tcid \notin CallIds(s[r].calls)

\* C28: the sanitiser's output is the input restricted to a set of
\* positions (nothing added, reordered or altered) that holds every human,
\* system and tool-call-free assistant message and no tool message whose
\* run is not opened by an assistant message requesting its tool_call_id.
C28_OrderPreservingSubsequence ==
    sanPc = "out" =>
        \E K \in SUBSET DOMAIN sanIn :
            /\ sanOut = Restrict(sanIn, K, 1)
            /\ \A p \in DOMAIN sanIn : PlainMessage(sanIn[p]) => p \in K
            /\ \A p \in DOMAIN sanIn : OrphanPosition(sanIn, p) => p \notin K

C28_Witness ==
    /\ sanPc = "out"
    /\ Len(sanIn) = 4
    /\ OrphanPosition(sanIn, 1)
    /\ PlainMessage(sanIn[2])
    /\ sanIn[3].type = "ai" /\ sanIn[3].calls # <<>>
    /\ sanIn[4].type = "tool"
    /\ Len(sanOut) = 3

\* the ids of the serialized messages of a message list: tool messages are
\* merged into the assistant messages and have no entry of their own
SerializedIds(msgs) ==
    LET shown == SelectSeq(msgs, LAMBDA m : m.type # "tool")
    IN [k \in DOMAIN shown |-> shown[k].id]

\* the id before m in the serialized list of msgs, NONE when m is first
PrecedingId(msgs, m) ==
    LET ids == SerializedIds(msgs)
        k == CHOOSE i \in DOMAIN ids : ids[i] = m
    IN IF k = 1 THEN NONE ELSE ids[k - 1]

LastSerializedId(msgs) ==
    IF SerializedIds(msgs) = <<>> THEN NONE ELSE Last(SerializedIds(msgs))

\* start checkpoints written on a base that was not the latest checkpoint
ForkStarts ==
    {c \in DOMAIN checkpoints :
        /\ checkpoints[c].source = "start"
        /\ checkpoints[checkpoints[c].parent].parent # checkpoints[c].parent - 1}

\* C29: the parentId of every repository message is the id before it in
\* the serialized list of the oldest checkpoint that holds it (none when
\* it is first); the message a fork adds has as parent the last message of
\* the checkpoint the fork was made from.
C29_ParentIsPredecessor ==
    LET repo == Repository(checkpoints) IN
    /\ \A k \in DOMAIN repo :
          repo[k].parentId =
             PrecedingId(checkpoints[Introduced(repo[k].id)].messages, repo[k].id)
    /\ \A c \in ForkStarts :
          LET new_id == Last(checkpoints[c].messages).id
              base == checkpoints[checkpoints[c].parent].parent
              base_messages == IF base = 0 THEN <<>> ELSE checkpoints[base].messages
          IN \A k \in DOMAIN repo :
                repo[k].id = new_id => repo[k].parentId = LastSerializedId(base_messages)

C29_Witness ==
    /\ \E seed \in Uuid4Seeds : snapshot = get_thread_snapshot(checkpoints, seed)
    /\ \E c \in ForkStarts :
          /\ checkpoints[checkpoints[c].parent].parent > 0
          /\ \E k \in DOMAIN snapshot.messageRepository.messages :
                /\ snapshot.messageRepository.messages[k].id =
                      Last(checkpoints[c].messages).id
                /\ snapshot.messageRepository.messages[k].parentId # NONE
                /\ k > 1
                /\ snapshot.messageRepository.messages[k].parentId #
                      snapshot.messageRepository.messages[k - 1].id

\* the messages of the checkpoint that was the latest one when the last
\* snapshot was taken
SnapshotHeadMessages ==
    IF snapshot.checkpoint_id = NONE THEN <<>>
    ELSE checkpoints[snapshot.checkpoint_id].messages

HeadIdInRepository ==
    LET repo == snapshot.messageRepository
    IN /\ repo.headId # NONE =>
             \E k \in DOMAIN repo.messages : repo.messages[k].id = repo.headId
       /\ repo.headId = NONE <=> repo.messages = <<>>

\* C30 (as claimed): in a snapshot headId is the id of the last message of
\* the head checkpoint when it has messages, and names a message of the
\* repository (none only when the repository is empty).
C30_HeadIsLastMessage ==
    /\ SnapshotHeadMessages # <<>> =>
          snapshot.messageRepository.headId = Last(SnapshotHeadMessages).id
    /\ HeadIdInRepository

\* C30 (amended): headId is the id of the last message of the head
\* checkpoint that is not a tool message (tool results are merged into
\* the assistant message that requested them), and names a message of the
\* repository (none only when the repository is empty).
C30_HeadIsLastSerializedMessage ==
    /\ SnapshotHeadMessages # <<>> =>
          snapshot.messageRepository.headId = LastSerializedId(SnapshotHeadMessages)
    /\ HeadIdInRepository

C30_Witness ==
    /\ snapshot.checkpoint_id = Len(checkpoints)
    /\ SnapshotHeadMessages # <<>>
    /\ Last(SnapshotHeadMessages).type = "tool"
    /\ snapshot.messageRepository.headId = SnapshotHeadMessages[Len(SnapshotHeadMessages) - 1].id
    /\ SnapshotHeadMessages[Len(SnapshotHeadMessages) - 1].type = "ai"

-----------------------------------------------------------------------------
(* C31: rebuilding the snapshot of an unchanged store *)

\* the ids a snapshot shows: message ids, tool-call ids, parent links, head
ShownIds(snap) ==
    [messages |-> [k \in DOMAIN snap.messages |->
                      [id |-> snap.messages[k].id,
                       toolCallIds |-> [c \in DOMAIN snap.messages[k].tool_calls |->
                                          snap.messages[k].tool_calls[c].toolCallId]]],
     repository |-> [k \in DOMAIN snap.messageRepository.messages |->
                      [id |-> snap.messageRepository.messages[k].id,
                       parentId |-> snap.messageRepository.messages[k].parentId,
                       toolCallIds |->
                          [c \in DOMAIN snap.messageRepository.messages[k].message.tool_calls |->
                              snap.messageRepository.messages[k].message.tool_calls[c].toolCallId]]],
     headId |-> snap.messageRepository.headId]

\* C31: two snapshots built from the same checkpoint store show the same
\* message ids, tool-call ids, parent links and head.
C31_ReconstructionDeterministic ==
    Len(ser_builds) = 2 => ShownIds(ser_builds[1]) = ShownIds(ser_builds[2])

-----------------------------------------------------------------------------
(* C32: the ids a snapshot serves are ids the resolvers know *)

ServedIds(snap) ==
    {snap.messages[k].id : k \in DOMAIN snap.messages}
    \cup {snap.messageRepository.messages[k].id :
             k \in DOMAIN snap.messageRepository.messages}

\* C32: every message id served by the snapshot of the thread's store, in
\* its messages or its repository, resolves as parent_message_id and as
\* source_message_id against the same store: no request naming it is
\* answered 404, however many checkpoints the thread has.
C32_ServedIdsResolve ==
    \A seed \in Uuid4Seeds :
       \A id \in ServedIds(get_thread_snapshot(checkpoints, seed)) :
          /\ resolve_parent_checkpoint(checkpoints, id) # NONE
          /\ resolve_edit_checkpoint(checkpoints, id) # NONE
          /\ \A req \in Requests({id}) :
                (req.parent_message_id = id \/ req.source_message_id = id)
                    => ~not_found(checkpoints, req)

\* a run was accepted that names an id of the last snapshot, built when the
\* thread already had more checkpoints than the history fetches
C32_Witness ==
    /\ run_status = "open"
    /\ snapshot.checkpoint_id > HistoryLimit
    /\ fork # NONE
    /\ \/ request.parent_message_id \in ServedIds(snapshot)
       \/ request.source_message_id \in ServedIds(snapshot)

-----------------------------------------------------------------------------
(* C33: the repository is a forest *)

\* C33: in the repository built from the thread's checkpoints the message
\* ids are pairwise distinct and every parentId is null or the id of an
\* entry listed earlier, so the parent links have no cycle and no dangling
\* parent.
C33_RepositoryIsForest ==
    LET repo == Repository(checkpoints) IN
    /\ \A j, k \in DOMAIN repo : repo[j].id = repo[k].id => j = k
    /\ \A k \in DOMAIN repo :
          \/ repo[k].parentId = NONE
          \/ \E j \in 1..(k - 1) : repo[j].id = repo[k].parentId

\* a repository with a root, a branch point with two children, built from a
\* history cut at the limit
C33_Witness ==
    LET repo == Repository(checkpoints) IN
    /\ Len(checkpoints) > HistoryLimit
    /\ \E j, k \in DOMAIN repo :
          /\ j # k
          /\ repo[j].parentId = repo[k].parentId
          /\ repo[j].parentId # NONE

-----------------------------------------------------------------------------
(* C34: concurrent append_run / upsert_tool_call on one thread *)

StoredDocument == files[thread_path(RACE_THREAD)]

RecordStored(c) ==
    IF call_op[c] = "append_run"
    THEN \E k \in DOMAIN StoredDocument.runs : StoredDocument.runs[k] = run_record(c)
    ELSE \E k \in DOMAIN StoredDocument.tool_calls :
            StoredDocument.tool_calls[k] = tool_call_record(c)

\* C34: once both calls have returned, the thread's document holds the
\* record of each of them.
C34_NoLostUpdate ==
    (\A c \in Callers : call_pc[c] = "done") => \A c \in Callers : RecordStored(c)

-----------------------------------------------------------------------------
(* C35: the document of a thread points at an existing blob *)

\* C35: whenever no put is in progress, the thread's document points at a
\* blob that exists, and resolve_repo returns a repository.
C35_PointerNeverDangles ==
    /\ ((\A c \in Callers : put_pc[c] = "idle") /\ container # <<>>) =>
          /\ container[1].repo_blob_name \in DOMAIN blob_storage
          /\ resolve_repo(container, blob_storage).status = "ok"
          /\ resolve_repo(container, blob_storage).repo \in Repos
    /\ resolved.status # "raised"

-----------------------------------------------------------------------------
(* C36: what a tool round of routes/chat.py appends *)

AllCallIds(msgs) ==
    UNION {CallIds(msgs[i].calls) : i \in {j \in DOMAIN msgs : msgs[j].type = "ai"}}

\* C36: a completed tool round appends to the working list one assistant
\* message with n >= 1 tool calls and right after it exactly n tool messages
\* answering those calls in the same order; the calls' ids are distinct
\* from each other and from every call id already in the list.
C36_RoundAppendsPairedCalls ==
    [][round_index' = round_index + 1 =>
         LET base == Len(current_messages)
             n == Len(current_messages') - base - 1
         IN /\ n >= 1
            /\ IsPrefix(current_messages, current_messages')
            /\ current_messages'[base + 1].type = "ai"
            /\ Len(current_messages'[base + 1].calls) = n
            /\ \A k \in 1..n :
                  /\ current_messages'[base + 1 + k].type = "tool"
                  /\ current_messages'[base + 1 + k].tcid =
                        current_messages'[base + 1].calls[k].id
                  /\ current_messages'[base + 1].calls[k].id
                        \notin AllCallIds(current_messages)
                  /\ \A j \in 1..n :
                        current_messages'[base + 1].calls[j].id =
                           current_messages'[base + 1].calls[k].id => j = k
    ]_vars

\* the second round of a run has appended two calls and their two results
C36_Witness ==
    /\ round_index = 2
    /\ chatPc = "model"
    /\ Len(current_messages) >= 6
    /\ current_messages[Len(current_messages) - 2].type = "ai"
    /\ Len(current_messages[Len(current_messages) - 2].calls) = 2
    /\ current_messages[Len(current_messages)].type = "tool"

-----------------------------------------------------------------------------
(* C37: how a run of routes/chat.py ends *)

ChatStoredMessages(fs) ==
    IF exists(fs, CHAT_THREAD) THEN fs[thread_path(CHAT_THREAD)].messages ELSE <<>>

RunRecordsOf(fs, id) ==
    SelectSeq(fs[thread_path(CHAT_THREAD)].runs, LAMBDA r : r.id = id)

ClosingEvents(events) ==
    SelectSeq(events, LAMBDA e : e.type \in {"done", "error"})

\* C37: a run ends with exactly one closing event, done or error, as its
\* last event, and with exactly one record for its run id, complete or
\* failed respectively; the stored messages change only in the step that
\* completes the run, so a failed run leaves those stored before it.
C37_RunEndsOnce ==
    [][/\ chatPc' = "done" =>
            /\ ClosingEvents(yielded') = <<event_line("done", NONE)>>
            /\ Last(yielded').type = "done"
            /\ RunRecordsOf(files', run_id') =
                  <<[id |-> run_id', status |-> "complete"]>>
            /\ ChatStoredMessages(files') =
                  persisted_messages(chat_payload', current_messages')
       /\ chatPc' = "error" =>
            /\ ClosingEvents(yielded') = <<event_line("error", NONE)>>
            /\ Last(yielded').type = "error"
            /\ RunRecordsOf(files', run_id') =
                  <<[id |-> run_id', status |-> "failed"]>>
            /\ ChatStoredMessages(files') = ChatStoredMessages(files)
       /\ chatPc' \notin {"done", "error"} =>
            /\ ClosingEvents(yielded') = <<>>
            /\ RunRecordsOf(files', run_id') = <<>>
            /\ ChatStoredMessages(files') = ChatStoredMessages(files)
    ]_vars

\* a run on a thread with stored messages failed after a tool round
C37_Witness ==
    /\ chatPc = "error"
    /\ round_index >= 1
    /\ ChatStoredMessages(files) # <<>>
    /\ files[thread_path(CHAT_THREAD)].tool_calls # <<>>
    /\ Len(files[thread_path(CHAT_THREAD)].runs) = 2

====
